---------------------------- MODULE Spec2Model ----------------------------
(***************************************************************************)
(* Model of the MetalMan export scripts:                                   *)
(*   MetalMan/Scripts/export_animations_to_usdz.py   (player converter)    *)
(*   MetalMan/Scripts/export_enemy_animations.py     (enemy converter)     *)
(*   MetalMan/Scripts/export_vendor_animations.py    (vendor converter)    *)
(*   Scripts/export_animation.py                     (keyframe sampler)    *)
(*                                                                         *)
(* The module holds one specification per component.  Every variable is    *)
(* declared once; a specification leaves the variables of the other        *)
(* components at their idle values.                                        *)
(*   SpecClean   clean_filename, one assignment of `name` per step         *)
(*   SpecStrip   the root-motion stripping loop of process_animation       *)
(*   SpecSample  the frame sampling of export_animation                    *)
(*   SpecScene   clear_scene on an arbitrary scene                         *)
(*   SpecBatch   main and the per-item function of the three converters    *)
(*   SpecAll     export_all_actions over the clips of the project          *)
(*   SpecItem    process_animation and export_usdz, statement by statement *)
(*   SpecExport  export_animation: lookup, bone table, keyframes, document *)
(***************************************************************************)
EXTENDS Integers, Sequences, FiniteSets, TLC

VARIABLES
    \* ---- clean_filename ----
    cf_variant,   \* which script's clean_filename runs
    cf_input,     \* the argument of the first call
    cf_name,      \* the local variable `name`
    cf_pc,        \* the statement about to run ("idle" when not in a call)
    cf_calls,     \* number of completed calls (the second call re-sanitizes)
    cf_once,      \* value returned by the first call
    cf_result     \* value returned by the latest call

cf_vars == <<cf_variant, cf_input, cf_name, cf_pc, cf_calls, cf_once, cf_result>>

\* A component that a specification does not run stays idle.
CfIdle ==
    /\ cf_variant = "player" /\ cf_input = <<>> /\ cf_name = <<>> /\ cf_pc = "idle"
    /\ cf_calls = 0 /\ cf_once = <<>> /\ cf_result = <<>>

VARIABLES
    \* ---- root-motion stripping ----
    rm_variant,   \* "player" or "enemy": the candidate list differs
    rm_strip,     \* the strip_root argument of process_animation
    rm_api,       \* how the host exposes the clip's channels
    rm_fcurves,   \* the channels of the clip (new_action)
    rm_orig,      \* the channels as they were before stripping
    rm_i,         \* position in root_bone_names
    rm_local,     \* the local `fcurves`: indexes into rm_fcurves
    rm_x,         \* x_curve (index into rm_fcurves, 0 for None)
    rm_z,         \* z_curve
    rm_pc

rm_vars == <<rm_variant, rm_strip, rm_api, rm_fcurves, rm_orig, rm_i, rm_local,
             rm_x, rm_z, rm_pc>>

RmIdle ==
    /\ rm_variant = "player" /\ rm_strip = FALSE /\ rm_api = "fcurves"
    /\ rm_fcurves = <<>> /\ rm_orig = <<>> /\ rm_i = 0 /\ rm_local = <<>>
    /\ rm_x = 0 /\ rm_z = 0 /\ rm_pc = "idle"

VARIABLES
    \* ---- export_animation (keyframe sampler) ----
    ka_range,     \* action.frame_range, a pair of floats, in half frames
    ka_start,     \* frame_start
    ka_end,       \* frame_end
    ka_total,     \* total_frames
    ka_step,      \* sample_step
    ka_sampled,   \* sampled_frames
    ka_k,         \* position of the for loop in sampled_frames
    ka_frame,     \* scene.frame_current
    ka_visited,   \* the frames the scene was set to, in order
    ka_pc

ka_vars == <<ka_range, ka_start, ka_end, ka_total, ka_step, ka_sampled, ka_k,
             ka_frame, ka_visited, ka_pc>>

KaIdle ==
    /\ ka_range = <<0, 0>> /\ ka_start = 0 /\ ka_end = 0 /\ ka_total = 0
    /\ ka_step = 0 /\ ka_sampled = <<>> /\ ka_k = 0 /\ ka_frame = 0
    /\ ka_visited = <<>> /\ ka_pc = "idle"

VARIABLES
    \* ---- clear_scene ----
    sc_objects,   \* the objects of the scene
    sc_selected,  \* the names of the selected objects
    sc_blocks,    \* the data blocks of bpy.data (the six purged collections)
    sc_refs,      \* the references between data blocks, as <<user, used>>
    sc_pc

sc_vars == <<sc_objects, sc_selected, sc_blocks, sc_refs, sc_pc>>

ScIdle ==
    /\ sc_objects = {} /\ sc_selected = {} /\ sc_blocks = {} /\ sc_refs = {}
    /\ sc_pc = "idle"

VARIABLES
    \* ---- the batch converters ----
    b_env,         \* what the run finds: variant, directories, configuration
    b_pc,          \* position in main or in the per-item function
    b_files,       \* animation_files / fbx_files
    b_idx,         \* position of main's for loop in the list
    success_count,
    fail_count,
    skip_count,
    b_item,        \* the per-item function's locals and what it did
    b_objects,     \* the objects of the scene
    b_outputs,     \* the stems of the .usdz files in OUTPUT_DIR
    b_attempted,   \* the files the per-item function was called on, in order
    b_actions      \* the names of the clips in bpy.data.actions

b_vars == <<b_env, b_pc, b_files, b_idx, success_count, fail_count, skip_count,
            b_item, b_objects, b_outputs, b_attempted, b_actions>>

\* The locals of the per-item function, and what the host held when it was
\* called (the scene, the clips, the output files, main's counters).
NoItem ==
    [file |-> 0, result |-> "none", noarm |-> FALSE, export_called |-> FALSE,
     char_armature_name |-> "", char_mesh_names |-> {}, before |-> <<0, 0, 0>>,
     scene_before |-> {}, actions_before |-> {}, outputs_before |-> {},
     host_calls |-> 0]

BIdle ==
    /\ b_env = [variant |-> "player"] /\ b_pc = "idle" /\ b_files = <<>> /\ b_idx = 0
    /\ success_count = 0 /\ fail_count = 0 /\ skip_count = 0 /\ b_item = NoItem
    /\ b_objects = {} /\ b_outputs = {} /\ b_attempted = <<>> /\ b_actions = {}

VARIABLES
    \* ---- export_all_actions ----
    ea_found,      \* whether the armature lookup finds an armature
    ea_clips,      \* bpy.data.actions, in iteration order
    ea_has_data,   \* whether armature.animation_data exists
    ea_action,     \* armature.animation_data.action ("None" for none)
    ea_before,     \* the active clip when export_all_actions was called
    ea_original,   \* the local original_action
    ea_k,          \* position of the for loop in bpy.data.actions
    ea_exported,   \* the local list `exported`
    ea_pc

ea_vars == <<ea_found, ea_clips, ea_has_data, ea_action, ea_before, ea_original,
             ea_k, ea_exported, ea_pc>>

EaIdle ==
    /\ ea_found = FALSE /\ ea_clips = <<>> /\ ea_has_data = FALSE
    /\ ea_action = "None" /\ ea_before = "None" /\ ea_original = "None"
    /\ ea_k = 0 /\ ea_exported = <<>> /\ ea_pc = "idle"

VARIABLES
    \* ---- process_animation and export_usdz, item by item ----
    pa_env,        \* bpy.app.version and what the character file holds
    pa_item,       \* what the animation file of the item holds
    pa_pc,
    pa_objects,    \* bpy.context.scene.objects, in iteration order
    pa_actions,    \* the names of the clips in bpy.data.actions
    pa_frame,      \* <<scene.frame_start, scene.frame_end>>
    pa_local,      \* the locals of process_animation
    pa_iter,       \* position of the iterator of the duplicate-removal loop
    pa_calls,      \* the calls of the export operator: profile and outcome
    pa_log         \* the host operations of the item, in order

pa_vars == <<pa_env, pa_item, pa_pc, pa_objects, pa_actions, pa_frame, pa_local,
             pa_iter, pa_calls, pa_log>>

NoLocals ==
    [char_armature_name |-> <<>>, after_base |-> {}, char_mesh_names |-> {},
     actions_before_anim |-> {}, new_actions |-> {}, new_action |-> "None",
     result |-> "none"]

PaIdle ==
    /\ pa_env = [version |-> <<0, 0, 0>>, character |-> <<>>]
    /\ pa_item = <<>> /\ pa_pc = "idle"
    /\ pa_objects = <<>> /\ pa_actions = {} /\ pa_frame = <<0, 0>>
    /\ pa_local = NoLocals /\ pa_iter = 0 /\ pa_calls = <<>> /\ pa_log = <<>>

VARIABLES
    \* ---- export_animation, from the lookup of the armature to the write ----
    xa_env,        \* the arguments, the scene, render.fps, the frame at the call
    xa_pc,
    xa_armature,   \* the local `armature`: a position in the scene, 0 for None
    xa_frame,      \* scene.frame_current
    xa_local,      \* the locals of export_animation
    xa_files,      \* the files written: path and document
    xa_result      \* what export_animation returned

xa_vars == <<xa_env, xa_pc, xa_armature, xa_frame, xa_local, xa_files, xa_result>>

NoExportLocals ==
    [frame_start |-> 0, frame_end |-> 0, fps |-> 0, bones_info |-> <<>>,
     bone_name_to_index |-> <<>>, sampled_frames |-> <<>>, k |-> 0,
     keyframes |-> <<>>, visited |-> <<>>]

XaIdle ==
    /\ xa_env = [armature_name |-> "None", output_path |-> "None",
                 blend_saved |-> FALSE, fps |-> 0, scene |-> <<>>]
    /\ xa_pc = "idle" /\ xa_armature = 0 /\ xa_frame = 0
    /\ xa_local = NoExportLocals /\ xa_files = {} /\ xa_result = "none"

vars == <<cf_vars, rm_vars, ka_vars, sc_vars, b_vars, ea_vars, pa_vars, xa_vars>>

\* What each component leaves alone.
CfOthers == <<rm_vars, ka_vars, sc_vars, b_vars, ea_vars, pa_vars, xa_vars>>
RmOthers == <<cf_vars, ka_vars, sc_vars, b_vars, ea_vars, pa_vars, xa_vars>>
KaOthers == <<cf_vars, rm_vars, sc_vars, b_vars, ea_vars, pa_vars, xa_vars>>
ScOthers == <<cf_vars, rm_vars, ka_vars, b_vars, ea_vars, pa_vars, xa_vars>>
BOthers == <<cf_vars, rm_vars, ka_vars, sc_vars, ea_vars, pa_vars, xa_vars>>
EaOthers == <<cf_vars, rm_vars, ka_vars, sc_vars, b_vars, pa_vars, xa_vars>>
PaOthers == <<cf_vars, rm_vars, ka_vars, sc_vars, b_vars, ea_vars, xa_vars>>
XaOthers == <<cf_vars, rm_vars, ka_vars, sc_vars, b_vars, ea_vars, pa_vars>>

Variants == {"player", "enemy", "vendor"}

(***************************************************************************)
(* Generic helpers on sequences.                                           *)
(***************************************************************************)
RECURSIVE SeqsUpTo(_, _)
SeqsUpTo(S, n) ==
    IF n = 0 THEN {<<>>}
    ELSE LET shorter == SeqsUpTo(S, n - 1)
         IN  shorter \cup {Append(s, c) : s \in {t \in shorter : Len(t) = n - 1}, c \in S}

RECURSIVE Flatten(_)
Flatten(ss) == IF ss = <<>> THEN <<>> ELSE Head(ss) \o Flatten(Tail(ss))

\* Python's str.rfind as a 1-based index, 0 when absent.
RFind(s, c) ==
    LET hits == {i \in 1..Len(s) : s[i] = c}
    IN  IF hits = {} THEN 0 ELSE CHOOSE i \in hits : \A j \in hits : j <= i

(***************************************************************************)
(* Characters.  A string is a sequence of one-character tokens.  Python    *)
(* strings are Unicode, and re's \w, \s, \d and str.lower() are Unicode    *)
(* aware, so the alphabet has one token for every class of character the   *)
(* sanitizer treats differently:                                           *)
(*   "TAB"     a whitespace character other than U+0020                     *)
(*   "#"       a character that is neither \w, \s nor '-'                   *)
(*   "U+0130"  LATIN CAPITAL LETTER I WITH DOT ABOVE: a \w character whose  *)
(*             str.lower() is the two characters "i" + U+0307               *)
(*   "U+0307"  COMBINING DOT ABOVE: category Mn, not matched by \w          *)
(*   "U+03D2"  GREEK UPSILON WITH HOOK SYMBOL: category Lu, str.isupper(),  *)
(*             matched by \w, with no lowercase mapping                     *)
(***************************************************************************)
AsciiUpper == {"A", "B", "F", "S", "X"}
AsciiLower == {"a", "b", "c", "d", "e", "f", "h", "i", "k", "l", "n", "o",
               "r", "s", "t", "w", "x"}
AsciiDigit == {"2"}

IsDigit(c) == c \in AsciiDigit                                    \* \d
IsAlnum(c) == c \in AsciiUpper \cup AsciiLower \cup AsciiDigit \cup {"U+0130", "U+03D2"}
IsWord(c)  == IsAlnum(c) \/ c = "_"                               \* \w
SpaceChars == {" ", "TAB"}
IsSpace(c) == c \in SpaceChars                                   \* \s
IsUpper(c) == c \in AsciiUpper \cup {"U+0130", "U+03D2"}          \* str.isupper()

\* str.lower() of one character.
LowerChar(c) ==
    CASE c = "A"      -> <<"a">>
      [] c = "B"      -> <<"b">>
      [] c = "F"      -> <<"f">>
      [] c = "S"      -> <<"s">>
      [] c = "X"      -> <<"x">>
      [] c = "U+0130" -> <<"i", "U+0307">>
      [] OTHER        -> <<c>>

(***************************************************************************)
(* The statements of clean_filename.                                       *)
(***************************************************************************)
\* os.path.splitext(name)[0]  (posixpath: sep '/', extsep '.'; the dots that
\* lead the last path component do not start an extension)
splitext(p) ==
    LET sepIndex == RFind(p, "/")
        dotIndex == RFind(p, ".")
    IN  IF dotIndex > sepIndex
           /\ \E k \in (sepIndex + 1)..(dotIndex - 1) : p[k] # "."
        THEN SubSeq(p, 1, dotIndex - 1)
        ELSE p

\* Length of the longest run of characters of the set C that starts at i.
RECURSIVE Run(_, _, _)
Run(s, i, C) ==
    IF i <= Len(s) /\ s[i] \in C THEN 1 + Run(s, i + 1, C) ELSE 0

\* A match of  \s*\((\d+)\)  starting at i: <<TRUE, first digit, last digit>>
\* (the closing parenthesis is at last digit + 1), else <<FALSE, 0, 0>>.
ParenMatch(s, i) ==
    LET open   == i + Run(s, i, SpaceChars)
        digits == Run(s, open + 1, AsciiDigit)
        close  == open + 1 + digits
    IN  IF /\ open <= Len(s) /\ s[open] = "("
           /\ digits >= 1
           /\ close <= Len(s) /\ s[close] = ")"
        THEN <<TRUE, open + 1, close - 1>>
        ELSE <<FALSE, 0, 0>>

\* re.sub(r'\s*\((\d+)\)', r'-\1', name): leftmost non-overlapping matches.
RECURSIVE SubParenFrom(_, _)
SubParenFrom(s, i) ==
    IF i > Len(s) THEN <<>>
    ELSE LET m == ParenMatch(s, i)
         IN  IF m[1]
             THEN <<"-">> \o SubSeq(s, m[2], m[3]) \o SubParenFrom(s, m[3] + 2)
             ELSE <<s[i]>> \o SubParenFrom(s, i + 1)

sub_paren(s) == SubParenFrom(s, 1)

\* re.sub(r'[^\w\s\-]', '', name)
KeptBySpecial(c) == IsWord(c) \/ IsSpace(c) \/ c = "-"

sub_special(s) == SelectSeq(s, KeptBySpecial)

\* name.replace(old, new) for one-character old and new
replace(s, old, new) == [i \in 1..Len(s) |-> IF s[i] = old THEN new ELSE s[i]]

\* name.lower()
lower(s) == Flatten([i \in 1..Len(s) |-> LowerChar(s[i])])

\* re.sub(r'-+', '-', name)
RECURSIVE sub_dashes(_)
sub_dashes(s) ==
    IF s = <<>> THEN <<>>
    ELSE IF Head(s) = "-"
         THEN <<"-">> \o sub_dashes(SubSeq(s, 1 + Run(s, 1, {"-"}), Len(s)))
         ELSE <<Head(s)>> \o sub_dashes(Tail(s))

\* name.strip('-')
strip_dashes(s) ==
    LET keep == {i \in 1..Len(s) : s[i] # "-"}
    IN  IF keep = {} THEN <<>>
        ELSE SubSeq(s, CHOOSE i \in keep : \A j \in keep : i <= j,
                       CHOOSE i \in keep : \A j \in keep : j <= i)

\* The statements in program order; the vendor script has one more.
CleanSteps(v) ==
    IF v = "vendor"
    THEN <<"splitext", "paren", "special", "space", "underscore", "lower", "dashes", "strip">>
    ELSE <<"splitext", "paren", "special", "space", "lower", "dashes", "strip">>

CleanStep(step, s) ==
    CASE step = "splitext"   -> splitext(s)
      [] step = "paren"      -> sub_paren(s)
      [] step = "special"    -> sub_special(s)
      [] step = "space"      -> replace(s, " ", "-")
      [] step = "underscore" -> replace(s, "_", "-")
      [] step = "lower"      -> lower(s)
      [] step = "dashes"     -> sub_dashes(s)
      [] step = "strip"      -> strip_dashes(s)

RECURSIVE RunSteps(_, _)
RunSteps(steps, s) ==
    IF steps = <<>> THEN s ELSE RunSteps(Tail(steps), CleanStep(Head(steps), s))

\* clean_filename(name) as a function of its argument.
clean_filename(v, name) == RunSteps(CleanSteps(v), name)

(***************************************************************************)
(* SpecClean: clean_filename is called on a file name and then once more   *)
(* on its own result.                                                      *)
(***************************************************************************)
MaxNameLen == 3

\* The characters the bounded inputs are built from.
Sigma == {"A", "a", "2", "_", "-", " ", "TAB", ".", "(", ")", "#", "U+0130", "U+03D2"}

\* "Sword And Shield Attack (2).fbx"
ExampleName ==
    <<"S","w","o","r","d"," ","A","n","d"," ","S","h","i","e","l","d"," ",
      "A","t","t","a","c","k"," ","(","2",")",".","f","b","x">>

\* "sword-and-shield-attack-2"
ExampleSlug ==
    <<"s","w","o","r","d","-","a","n","d","-","s","h","i","e","l","d","-",
      "a","t","t","a","c","k","-","2">>

CleanInputs == SeqsUpTo(Sigma, MaxNameLen) \cup {ExampleName}

InitClean ==
    /\ RmIdle
    /\ KaIdle
    /\ ScIdle
    /\ BIdle
    /\ EaIdle
    /\ PaIdle
    /\ XaIdle
    /\ cf_variant \in Variants
    /\ cf_input \in CleanInputs
    /\ cf_name = cf_input
    /\ cf_pc = "splitext"
    /\ cf_calls = 0
    /\ cf_once = <<>>
    /\ cf_result = <<>>

\* The statement after `step` in the variant's clean_filename.
NextCleanPc(v, step) ==
    LET steps == CleanSteps(v)
        k     == CHOOSE i \in 1..Len(steps) : steps[i] = step
    IN  IF k = Len(steps) THEN "return" ELSE steps[k + 1]

\* One assignment  name = <step>(name).
CleanStmt(step) ==
    /\ cf_pc = step
    /\ cf_name' = CleanStep(step, cf_name)
    /\ cf_pc' = NextCleanPc(cf_variant, step)
    /\ UNCHANGED <<cf_variant, cf_input, cf_calls, cf_once, cf_result>>
    /\ UNCHANGED CfOthers

cf_splitext   == CleanStmt("splitext")
cf_paren      == CleanStmt("paren")
cf_special    == CleanStmt("special")
cf_space      == CleanStmt("space")
cf_underscore == CleanStmt("underscore")
cf_lower      == CleanStmt("lower")
cf_dashes     == CleanStmt("dashes")
cf_strip      == CleanStmt("strip")

\* return name
cf_return ==
    /\ cf_pc = "return"
    /\ cf_result' = cf_name
    /\ cf_once' = IF cf_calls = 0 THEN cf_name ELSE cf_once
    /\ cf_calls' = cf_calls + 1
    /\ cf_pc' = "done"
    /\ UNCHANGED <<cf_variant, cf_input, cf_name>>
    /\ UNCHANGED CfOthers

\* clean_filename(clean_filename(x)): the result is the next argument.
cf_again ==
    /\ cf_pc = "done"
    /\ cf_calls = 1
    /\ cf_name' = cf_result
    /\ cf_pc' = "splitext"
    /\ UNCHANGED <<cf_variant, cf_input, cf_calls, cf_once, cf_result>>
    /\ UNCHANGED CfOthers

NextClean ==
    \/ cf_splitext \/ cf_paren \/ cf_special \/ cf_space \/ cf_underscore
    \/ cf_lower \/ cf_dashes \/ cf_strip \/ cf_return \/ cf_again

SpecClean == InitClean /\ [][NextClean]_vars

\* The first call has returned.
CleanedOnce == cf_pc = "done" /\ cf_calls = 1
\* The call on the first call's result has returned.
CleanedTwice == cf_pc = "done" /\ cf_calls = 2

\* C1: clean_filename is idempotent in every variant: for every input x,
\* clean_filename(clean_filename(x)) = clean_filename(x).
C1_Idempotent == CleanedTwice => cf_result = cf_once

\* [a-z0-9-]
SlugChars == AsciiLower \cup AsciiDigit \cup {"-"}

\* C2: every character of the string clean_filename returns is in [a-z0-9-];
\* no underscore, tab or other whitespace character survives.
C2_OnlySlugChars ==
    CleanedOnce => \A i \in 1..Len(cf_result) : cf_result[i] \in SlugChars

\* C3: the string clean_filename returns holds no uppercase letter, no space
\* character, no two consecutive dashes, and neither starts nor ends with a dash.
C3_NoUpperSpaceDashes ==
    CleanedOnce =>
        /\ \A i \in 1..Len(cf_result) : ~IsUpper(cf_result[i]) /\ cf_result[i] # " "
        /\ \A i \in 1..(Len(cf_result) - 1) : ~(cf_result[i] = "-" /\ cf_result[i + 1] = "-")
        /\ cf_result # <<>> => cf_result[1] # "-" /\ cf_result[Len(cf_result)] # "-"

\* The rules as the specification words them: the third rule drops every
\* character that is not alphanumeric, a space or a dash.
StatedKept(c) == IsAlnum(c) \/ c = " " \/ c = "-"

StatedRules(v, name) ==
    LET r1 == splitext(name)
        r2 == sub_paren(r1)
        r3 == SelectSeq(r2, StatedKept)
        r4 == IF v = "vendor" THEN replace(replace(r3, " ", "-"), "_", "-")
              ELSE replace(r3, " ", "-")
    IN  strip_dashes(sub_dashes(lower(r4)))

\* C4: clean_filename equals the composition of the stated rules in the stated
\* order for every input, and "Sword And Shield Attack (2).fbx" maps to
\* "sword-and-shield-attack-2" in all three variants.
C4_StatedComposition ==
    CleanedOnce =>
        /\ cf_result = StatedRules(cf_variant, cf_input)
        /\ cf_input = ExampleName => cf_result = ExampleSlug

\* The example alone.
C4_ExampleOnly == CleanedOnce /\ cf_input = ExampleName => cf_result = ExampleSlug

(***************************************************************************)
(* Root-motion stripping.  A clip's channel (fcurve) has a data path, an   *)
(* array index (0 = X, 1 = Y, 2 = Z) and keyframe points; a keyframe point *)
(* has a frame and three values: co[1], handle_left[1], handle_right[1].   *)
(* A name or data path is a sequence of atoms, and Python's `in` on        *)
(* strings is containment of one atom sequence in the other.               *)
(***************************************************************************)
\* Python's  sub in s  on strings.
Contains(sub, s) ==
    \E i \in 0..(Len(s) - Len(sub)) : SubSeq(s, i + 1, i + Len(sub)) = sub

\* root_bone_names, in list order.
root_bone_names(v) ==
    LET common == << <<"mixamorig", ":", "Hips">>, <<"mixamorig", "_", "Hips">>,
                     <<"Hips">>, <<"Root">>, <<"pelvis">> >>
    IN  IF v = "enemy"
        THEN common \o << <<"Mutant", ":", "Hips">>, <<"Mutant", "_", "Hips">> >>
        ELSE common

\* The data path of a pose bone's property:  pose.bones["<bone>"].<prop>
data_path(bone, prop) == <<"pose.bones[\"">> \o bone \o <<"\"].">> \o <<prop>>

\* if root_bone_name in fcurve.data_path and 'location' in fcurve.data_path
PathMatches(fc, root_bone_name) ==
    Contains(root_bone_name, fc.path) /\ Contains(<<"location">>, fc.path)

\* The loop over fcurves keeps the last matching channel of the axis; 0 is None.
FindCurve(fcs, local, root_bone_name, axis) ==
    LET hits == {j \in 1..Len(local) :
                    PathMatches(fcs[local[j]], root_bone_name) /\ fcs[local[j]].idx = axis}
    IN  IF hits = {} THEN 0
        ELSE local[CHOOSE j \in hits : \A h \in hits : h <= j]

\* first = kps[0].co[1]; every keyframe point gets co[1], handle_left[1] and
\* handle_right[1] set to it.
FlattenKeys(kps) ==
    [k \in 1..Len(kps) |->
        [kps[k] EXCEPT !.co = kps[1].co, !.hl = kps[1].co, !.hr = kps[1].co]]

\* if curve and len(curve.keyframe_points) > 0: flatten it
FlattenCurve(fcs, c) ==
    IF c # 0 /\ Len(fcs[c].kps) > 0
    THEN [fcs EXCEPT ![c].kps = FlattenKeys(fcs[c].kps)]
    ELSE fcs

(***************************************************************************)
(* SpecStrip: process_animation has found new_action and runs              *)
(*   if strip_root: for bone_name in root_bone_names:                      *)
(*       strip_root_motion_from_action(new_action, bone_name)              *)
(***************************************************************************)
MaxCurves == 2
MaxKeys == 2
KeyValues == {1, 2}

\* The value sequences of a channel: no key, one key, and keys that move.
KeySeqs ==
    {vs \in SeqsUpTo(KeyValues, MaxKeys) :
        /\ \A k \in 2..Len(vs) : vs[k] # vs[k - 1]
        /\ Len(vs) = 1 => vs[1] = 1}

\* Bones of the clips: two root bones, a bone that no candidate name matches,
\* and a bone that is no root bone but has a candidate name in its own
\* ("pelvis.L", a child of the spine in the host's human rig).
BoneNames ==
    {<<"mixamorig", ":", "Hips">>, <<"Hips">>, <<"Spine">>, <<"pelvis", ".", "L">>}
BoneProps == {"location", "rotation_euler"}

\* Keyframe points on frames 1, 2, ... with the given values; the handles of
\* an imported key differ from its value.
KeysOf(values) ==
    [k \in 1..Len(values) |->
        [frame |-> k, co |-> values[k], hl |-> values[k] + 10, hr |-> values[k] + 20]]

\* The channels of the inputs: the three location channels of a bone and
\* the first channel of its rotation.
Curves ==
    {fc \in {[path |-> data_path(b, p), idx |-> a, kps |-> KeysOf(vs)] :
                b \in BoneNames, p \in BoneProps, a \in 0..2, vs \in KeySeqs} :
        fc.path[Len(fc.path)] = "location" \/ fc.idx = 0}

\* A clip has at most one channel per data path and array index.
Clips(n) ==
    {fcs \in SeqsUpTo(Curves, n) :
        \A i, j \in 1..Len(fcs) :
            i # j => ~(fcs[i].path = fcs[j].path /\ fcs[i].idx = fcs[j].idx)}

\* How the host exposes the channels: action.fcurves; action.layers whose
\* strips have an fcurves attribute; action.layers whose strips have none;
\* neither attribute (or an exception while reading them).
ClipApis == {"fcurves", "layers_strip_fcurves", "layers_no_strip_fcurves", "none"}

InitStrip ==
    /\ CfIdle
    /\ KaIdle
    /\ ScIdle
    /\ BIdle
    /\ EaIdle
    /\ PaIdle
    /\ XaIdle
    /\ rm_variant \in {"player", "enemy"}
    /\ rm_strip \in BOOLEAN
    /\ rm_api \in ClipApis
    /\ rm_fcurves \in Clips(MaxCurves)
    /\ rm_orig = rm_fcurves
    /\ rm_i = 1
    /\ rm_local = <<>>
    /\ rm_x = 0
    /\ rm_z = 0
    /\ rm_pc = "if_strip"

\* if strip_root:
rm_if_strip ==
    /\ rm_pc = "if_strip"
    /\ rm_pc' = IF rm_strip THEN "for_bone" ELSE "done"
    /\ UNCHANGED <<rm_variant, rm_strip, rm_api, rm_fcurves, rm_orig, rm_i, rm_local, rm_x, rm_z>>
    /\ UNCHANGED RmOthers

\* for bone_name in root_bone_names: call, or leave the loop
rm_for_bone ==
    /\ rm_pc = "for_bone"
    /\ rm_pc' = IF rm_i <= Len(root_bone_names(rm_variant)) THEN "get_fcurves" ELSE "done"
    /\ UNCHANGED <<rm_variant, rm_strip, rm_api, rm_fcurves, rm_orig, rm_i, rm_local, rm_x, rm_z>>
    /\ UNCHANGED RmOthers

\* The try block that reads the channels; on "none" the function returns.
rm_get_fcurves ==
    /\ rm_pc = "get_fcurves"
    /\ IF rm_api = "none"
       THEN /\ rm_pc' = "for_bone"
            /\ rm_i' = rm_i + 1
            /\ UNCHANGED rm_local
       ELSE /\ rm_pc' = "find"
            /\ rm_local' = IF rm_api = "layers_no_strip_fcurves" THEN <<>>
                           ELSE [k \in 1..Len(rm_fcurves) |-> k]
            /\ UNCHANGED rm_i
    /\ UNCHANGED <<rm_variant, rm_strip, rm_api, rm_fcurves, rm_orig, rm_x, rm_z>>
    /\ UNCHANGED RmOthers

\* x_curve = z_curve = None; for fcurve in fcurves: ...
rm_find ==
    /\ rm_pc = "find"
    /\ rm_x' = FindCurve(rm_fcurves, rm_local, root_bone_names(rm_variant)[rm_i], 0)
    /\ rm_z' = FindCurve(rm_fcurves, rm_local, root_bone_names(rm_variant)[rm_i], 2)
    /\ rm_pc' = "flat_x"
    /\ UNCHANGED <<rm_variant, rm_strip, rm_api, rm_fcurves, rm_orig, rm_i, rm_local>>
    /\ UNCHANGED RmOthers

\* if x_curve and len(x_curve.keyframe_points) > 0: ...
rm_flat_x ==
    /\ rm_pc = "flat_x"
    /\ rm_fcurves' = FlattenCurve(rm_fcurves, rm_x)
    /\ rm_pc' = "flat_z"
    /\ UNCHANGED <<rm_variant, rm_strip, rm_api, rm_orig, rm_i, rm_local, rm_x, rm_z>>
    /\ UNCHANGED RmOthers

\* if z_curve and len(z_curve.keyframe_points) > 0: ...; the call returns
rm_flat_z ==
    /\ rm_pc = "flat_z"
    /\ rm_fcurves' = FlattenCurve(rm_fcurves, rm_z)
    /\ rm_i' = rm_i + 1
    /\ rm_pc' = "for_bone"
    /\ UNCHANGED <<rm_variant, rm_strip, rm_api, rm_orig, rm_local, rm_x, rm_z>>
    /\ UNCHANGED RmOthers

NextStrip ==
    \/ rm_if_strip \/ rm_for_bone \/ rm_get_fcurves \/ rm_find \/ rm_flat_x \/ rm_flat_z

SpecStrip == InitStrip /\ [][NextStrip]_vars

\* The stripping loop has run to its end.
Stripped == rm_pc = "done" /\ rm_strip

\* Channel c is a location channel of a bone matched by a candidate name.
MatchedLocation(c) ==
    \E n \in 1..Len(root_bone_names(rm_variant)) :
        PathMatches(rm_orig[c], root_bone_names(rm_variant)[n])

\* Every matched horizontal channel is frozen at its first value and every
\* matched vertical channel is as it was.
HorizontalFrozen ==
    \A c \in 1..Len(rm_fcurves) :
        MatchedLocation(c) =>
            /\ rm_orig[c].idx \in {0, 2} =>
                   \A k \in 1..Len(rm_fcurves[c].kps) :
                       /\ rm_fcurves[c].kps[k].co = rm_orig[c].kps[1].co
                       /\ rm_fcurves[c].kps[k].hl = rm_orig[c].kps[1].co
                       /\ rm_fcurves[c].kps[k].hr = rm_orig[c].kps[1].co
            /\ rm_orig[c].idx = 1 => rm_fcurves[c] = rm_orig[c]

\* C5: after root-motion stripping (the host exposing the clip's channels as
\* action.fcurves), every keyframe on the X and Z location channels of every
\* bone matched by a candidate name has its value and both handle values equal
\* to the pre-stripping first-keyframe value of that channel, and the Y
\* location channel is unchanged, for any set of channels in the clip,
\* several channels matching the same candidate name included.
C5_HorizontalFrozen == Stripped /\ rm_api = "fcurves" => HorizontalFrozen

\* No candidate name matches two channels of the same axis.
SingleMatch ==
    \A n \in 1..Len(root_bone_names(rm_variant)) : \A a \in {0, 2} :
        Cardinality({c \in 1..Len(rm_orig) :
            PathMatches(rm_orig[c], root_bone_names(rm_variant)[n])
            /\ rm_orig[c].idx = a}) <= 1

\* What does hold: with the channels readable and at most one channel per
\* candidate name and axis, the matched horizontal channels are frozen.
C5_SingleMatchFrozen ==
    Stripped /\ rm_api \in {"fcurves", "layers_strip_fcurves"} /\ SingleMatch
        => HorizontalFrozen

\* Channel c belongs to a root bone: a bone whose name is a candidate name.
RootBoneChannel(c) ==
    \E n \in 1..Len(root_bone_names(rm_variant)) : \E p \in BoneProps :
        rm_orig[c].path = data_path(root_bone_names(rm_variant)[n], p)

\* Channel c is the X or Z location channel of a root bone.
RootHorizontal(c) ==
    /\ RootBoneChannel(c)
    /\ rm_orig[c].path[Len(rm_orig[c].path)] = "location"
    /\ rm_orig[c].idx \in {0, 2}

\* The channels are the same ones, each with its keyframes on the same frames.
SameKeyframes ==
    /\ Len(rm_fcurves) = Len(rm_orig)
    /\ \A c \in 1..Len(rm_fcurves) :
          /\ rm_fcurves[c].path = rm_orig[c].path
          /\ rm_fcurves[c].idx = rm_orig[c].idx
          /\ Len(rm_fcurves[c].kps) = Len(rm_orig[c].kps)
          /\ \A k \in 1..Len(rm_fcurves[c].kps) :
                rm_fcurves[c].kps[k].frame = rm_orig[c].kps[k].frame

\* C21: root-motion stripping changes nothing but the values and handle values
\* of the X and Z location channels of root bones: the Y location channel, the
\* rotation and scale channels, every channel of a bone that is not a root
\* bone, and the frames and number of keyframes of every channel are as they
\* were; with the strip toggle off no channel is changed.
C21_OnlyRootHorizontalChanged ==
    /\ SameKeyframes
    /\ \A c \in 1..Len(rm_fcurves) :
          ~RootHorizontal(c) => rm_fcurves[c] = rm_orig[c]
    /\ ~rm_strip => rm_fcurves = rm_orig

\* What does hold: nothing changes but the values and handle values of X and Z
\* location channels whose data path contains a candidate name, and nothing at
\* all with the toggle off.
C21_OnlyMatchedHorizontalChanged ==
    /\ SameKeyframes
    /\ \A c \in 1..Len(rm_fcurves) :
          ~(MatchedLocation(c) /\ rm_orig[c].idx \in {0, 2}) =>
              rm_fcurves[c] = rm_orig[c]
    /\ ~rm_strip => rm_fcurves = rm_orig

\* The X location channel of "pelvis.L" has been flattened.
C21_NonRootFlattened ==
    ~(/\ rm_pc = "done"
      /\ \E c \in 1..Len(rm_fcurves) :
            /\ rm_orig[c].path = data_path(<<"pelvis", ".", "L">>, "location")
            /\ rm_fcurves[c] # rm_orig[c])

(***************************************************************************)
(* export_animation: the frame range and the sampled frames.               *)
(***************************************************************************)
\* int(x) of a float given in half frames: truncation toward zero.
int(h) == IF h >= 0 THEN h \div 2 ELSE -((-h) \div 2)

\* list(range(lo, hi, step)) for step > 0
range(lo, hi, step) ==
    IF hi <= lo THEN <<>>
    ELSE [i \in 1..(((hi - lo - 1) \div step) + 1) |-> lo + (i - 1) * step]

SampleThreshold == 300

\* A slip in the comparison: a clip of exactly 300 frames is subsampled.
sample_step_at_threshold(total_frames) ==
    IF total_frames >= SampleThreshold THEN 2 ELSE 1

\* sample_step = 1; if total_frames > 300: sample_step = 2
sample_step(total_frames) == IF total_frames > SampleThreshold THEN 2 ELSE 1

\* if sampled_frames[-1] != frame_end: sampled_frames.append(frame_end)
include_last(sampled_frames, frame_end) ==
    IF sampled_frames[Len(sampled_frames)] # frame_end
    THEN Append(sampled_frames, frame_end)
    ELSE sampled_frames

(***************************************************************************)
(* SpecSample: export_animation from the read of the clip's frame range to *)
(* the end of the loop over the sampled frames.                            *)
(***************************************************************************)
MaxSpan == 303

\* The first value of action.frame_range, in half frames: -1.5, 0 and 1.
RangeStarts == {-3, 0, 2}

InitSample ==
    /\ CfIdle
    /\ RmIdle
    /\ ScIdle
    /\ BIdle
    /\ EaIdle
    /\ PaIdle
    /\ XaIdle
    /\ \E lo \in RangeStarts : \E n \in 0..MaxSpan : ka_range = <<lo, lo + 2 * n>>
    /\ ka_start = 0
    /\ ka_end = 0
    /\ ka_total = 0
    /\ ka_step = 0
    /\ ka_sampled = <<>>
    /\ ka_k = 0
    /\ ka_frame = 0
    /\ ka_visited = <<>>
    /\ ka_pc = "frame_range"

\* frame_start = int(action.frame_range[0]); frame_end = int(action.frame_range[1])
ka_frame_range ==
    /\ ka_pc = "frame_range"
    /\ ka_start' = int(ka_range[1])
    /\ ka_end' = int(ka_range[2])
    /\ ka_pc' = "sample_step"
    /\ UNCHANGED <<ka_range, ka_total, ka_step, ka_sampled, ka_k, ka_frame, ka_visited>>
    /\ UNCHANGED KaOthers

\* total_frames = frame_end - frame_start + 1 and the choice of sample_step
ka_sample_step ==
    /\ ka_pc = "sample_step"
    /\ ka_total' = ka_end - ka_start + 1
    /\ ka_step' = sample_step(ka_end - ka_start + 1)
    /\ ka_pc' = "range"
    /\ UNCHANGED <<ka_range, ka_start, ka_end, ka_sampled, ka_k, ka_frame, ka_visited>>
    /\ UNCHANGED KaOthers

\* sampled_frames = list(range(frame_start, frame_end + 1, sample_step))
ka_range_list ==
    /\ ka_pc = "range"
    /\ ka_sampled' = range(ka_start, ka_end + 1, ka_step)
    /\ ka_pc' = "include_last"
    /\ UNCHANGED <<ka_range, ka_start, ka_end, ka_total, ka_step, ka_k, ka_frame, ka_visited>>
    /\ UNCHANGED KaOthers

\* Always include the last frame
ka_include_last ==
    /\ ka_pc = "include_last"
    /\ ka_sampled' = include_last(ka_sampled, ka_end)
    /\ ka_k' = 1
    /\ ka_pc' = "for_frame"
    /\ UNCHANGED <<ka_range, ka_start, ka_end, ka_total, ka_step, ka_frame, ka_visited>>
    /\ UNCHANGED KaOthers

\* for frame in sampled_frames: bpy.context.scene.frame_set(frame) ...
ka_for_frame ==
    /\ ka_pc = "for_frame"
    /\ ka_k <= Len(ka_sampled)
    /\ ka_frame' = ka_sampled[ka_k]
    /\ ka_visited' = Append(ka_visited, ka_sampled[ka_k])
    /\ ka_k' = ka_k + 1
    /\ UNCHANGED <<ka_range, ka_start, ka_end, ka_total, ka_step, ka_sampled, ka_pc>>
    /\ UNCHANGED KaOthers

\* the loop ends
ka_loop_end ==
    /\ ka_pc = "for_frame"
    /\ ka_k > Len(ka_sampled)
    /\ ka_pc' = "sampled"
    /\ UNCHANGED <<ka_range, ka_start, ka_end, ka_total, ka_step, ka_sampled, ka_k,
                   ka_frame, ka_visited>>
    /\ UNCHANGED KaOthers

NextSample ==
    \/ ka_frame_range \/ ka_sample_step \/ ka_range_list \/ ka_include_last
    \/ ka_for_frame \/ ka_loop_end

SpecSample == InitSample /\ [][NextSample]_vars

\* C6: a clip of at most 300 frames has every integer frame of [start, end]
\* sampled exactly once in increasing order; a longer clip is sampled at
\* start, start+2, start+4, ... and the final frame end is always the last
\* sampled frame, appended when the stride skips it and never duplicated.
C6_SampledFrames ==
    ka_pc = "sampled" =>
        /\ ka_visited = ka_sampled
        /\ ka_visited[Len(ka_visited)] = ka_end
        /\ \A i \in 1..(Len(ka_visited) - 1) : ka_visited[i] < ka_visited[i + 1]
        /\ ka_end - ka_start + 1 <= 300 =>
               ka_visited = [i \in 1..(ka_end - ka_start + 1) |-> ka_start + i - 1]
        /\ ka_end - ka_start + 1 > 300 =>
               LET strided == {f \in ka_start..ka_end : (f - ka_start) % 2 = 0}
               IN  /\ {ka_visited[i] : i \in 1..Len(ka_visited)} = strided \cup {ka_end}
                   /\ \A i \in 1..Len(ka_visited) :
                          ka_visited[i] # ka_end => ka_visited[i] = ka_start + 2 * (i - 1)

\* A long clip whose stride skips the final frame has been sampled.
C6_Witness ==
    /\ ka_pc = "sampled"
    /\ ka_end - ka_start + 1 > 300
    /\ (ka_end - ka_start) % 2 = 1
    /\ Len(ka_visited) >= 2
    /\ ka_visited[Len(ka_visited)] = ka_end
    /\ ka_visited[Len(ka_visited) - 1] = ka_end - 1

(***************************************************************************)
(* clear_scene.  An object of the scene has a name, the data block it      *)
(* shows (a mesh or an armature), the clip assigned to it, and is          *)
(* selectable or not: bpy.ops.object.select_all selects the objects that   *)
(* are visible and selectable in the view layer, and bpy.ops.object.delete *)
(* deletes the selected objects.  A data block is <<collection, n>>, n its *)
(* position in the collection; block.users counts the objects and the data *)
(* blocks that refer to it.                                                *)
(***************************************************************************)
NoBlock == <<"none", 0>>

\* The collections in the order clear_scene purges them.
PurgeOrder == <<"meshes", "armatures", "materials", "textures", "images", "actions">>

\* block.users
Users(b, objects, refs) ==
    Cardinality({o \in objects : o.data = b})
    + Cardinality({o \in objects : o.action = b})
    + Cardinality({r \in refs : r[2] = b})

\* bpy.data.<collection>.remove(block): its references go with it.
RemoveBlock(b, st) ==
    [blocks |-> st.blocks \ {b},
     refs   |-> {r \in st.refs : r[1] # b /\ r[2] # b}]

\* The blocks of a collection, in collection order, from position n on.
RECURSIVE PurgeFrom(_, _, _, _)
PurgeFrom(coll, n, objects, st) ==
    IF \A b \in st.blocks : ~(b[1] = coll /\ b[2] >= n) THEN st
    ELSE LET b == <<coll, n>>
         IN  IF b \in st.blocks /\ Users(b, objects, st.refs) = 0
             THEN PurgeFrom(coll, n + 1, objects, RemoveBlock(b, st))
             ELSE PurgeFrom(coll, n + 1, objects, st)

\* for block in bpy.data.<coll>: if block.users == 0: bpy.data.<coll>.remove(block)
PurgeCollection(coll, objects, blocks, refs) ==
    PurgeFrom(coll, 1, objects, [blocks |-> blocks, refs |-> refs])

(***************************************************************************)
(* SpecScene: clear_scene runs on a scene with any objects and any         *)
(* references the host allows between data blocks.                         *)
(***************************************************************************)
MaxObjects == 2

\* The data blocks of the inputs: one per collection and a second texture.
SceneBlocks ==
    {<<"meshes", 1>>, <<"armatures", 1>>, <<"materials", 1>>, <<"textures", 1>>,
     <<"textures", 2>>, <<"images", 1>>, <<"actions", 1>>}

\* The references the host keeps a user count for: a mesh uses its
\* materials, a material its textures and images, a texture an image, and a
\* texture's node tree another texture.
HostRefs ==
    {<< <<"meshes", 1>>, <<"materials", 1>> >>,
     << <<"materials", 1>>, <<"textures", 1>> >>,
     << <<"materials", 1>>, <<"images", 1>> >>,
     << <<"textures", 1>>, <<"images", 1>> >>,
     << <<"textures", 2>>, <<"textures", 1>> >>}

SceneObjects ==
    {[name |-> n, data |-> d, action |-> a, selectable |-> sel] :
        n \in 1..MaxObjects,
        d \in {<<"meshes", 1>>, <<"armatures", 1>>},
        a \in {NoBlock, <<"actions", 1>>},
        sel \in BOOLEAN}

InitScene ==
    /\ CfIdle
    /\ RmIdle
    /\ KaIdle
    /\ BIdle
    /\ EaIdle
    /\ PaIdle
    /\ XaIdle
    /\ sc_objects \in {os \in SUBSET SceneObjects :
                           \A o1, o2 \in os : o1.name = o2.name => o1 = o2}
    /\ sc_selected = {}
    /\ sc_blocks = SceneBlocks
    /\ sc_refs \in SUBSET HostRefs
    /\ sc_pc = "select_all"

\* bpy.ops.object.select_all(action='SELECT')
sc_select_all ==
    /\ sc_pc = "select_all"
    /\ sc_selected' = {o.name : o \in {x \in sc_objects : x.selectable}}
    /\ sc_pc' = "delete"
    /\ UNCHANGED <<sc_objects, sc_blocks, sc_refs>>
    /\ UNCHANGED ScOthers

\* bpy.ops.object.delete(use_global=False)
sc_delete ==
    /\ sc_pc = "delete"
    /\ sc_objects' = {o \in sc_objects : o.name \notin sc_selected}
    /\ sc_selected' = {}
    /\ sc_pc' = "meshes"
    /\ UNCHANGED <<sc_blocks, sc_refs>>
    /\ UNCHANGED ScOthers

\* One of the six purge loops, over the collection sc_pc names.
sc_purge ==
    /\ \E k \in 1..Len(PurgeOrder) :
          /\ sc_pc = PurgeOrder[k]
          /\ LET st == PurgeCollection(PurgeOrder[k], sc_objects, sc_blocks, sc_refs)
             IN  /\ sc_blocks' = st.blocks
                 /\ sc_refs' = st.refs
          /\ sc_pc' = IF k = Len(PurgeOrder) THEN "returned" ELSE PurgeOrder[k + 1]
    /\ UNCHANGED <<sc_objects, sc_selected>>
    /\ UNCHANGED ScOthers

NextScene == sc_select_all \/ sc_delete \/ sc_purge

SpecScene == InitScene /\ [][NextScene]_vars

\* C8: after clear_scene returns, for any scene contents and any reference
\* graph among the data blocks, the scene has zero objects and no mesh,
\* armature, material, texture, image or action data block has zero users.
C8_SceneEmptyNoOrphans ==
    sc_pc = "returned" =>
        /\ sc_objects = {}
        /\ \A b \in sc_blocks : Users(b, sc_objects, sc_refs) > 0

\* The object half of C8 alone.
C8_NoObjects == sc_pc = "returned" => sc_objects = {}

\* The data-block half of C8 alone.
C8_NoOrphans ==
    sc_pc = "returned" => \A b \in sc_blocks : Users(b, sc_objects, sc_refs) > 0

\* What does hold: every selectable object is gone.
C8_SelectableGone ==
    sc_pc = "returned" => \A o \in sc_objects : ~o.selectable

(***************************************************************************)
(* The batch converters.  A directory entry is a number; EntryName gives   *)
(* its file name.  Entry 2 stands for CHARACTER_MESH_FILE.                 *)
(***************************************************************************)
Letters == <<"a", "b", "c", "d", "e">>

\* "A.FBX", "S.fbx", "a.fbx", "a.txt", "a-.fbx", "b.fbx", "c.fbx", ...
\* ("a.fbx" and "a-.fbx" are two files with one clean name)
EntryName(e) ==
    CASE e = 1 -> <<"A", ".", "F", "B", "X">>
      [] e = 2 -> <<"S", ".", "f", "b", "x">>
      [] e = 3 -> <<"a", ".", "f", "b", "x">>
      [] e = 4 -> <<"a", ".", "t", "x", "t">>
      [] e = 5 -> <<"a", "-", ".", "f", "b", "x">>
      [] OTHER -> <<Letters[e - 4], ".", "f", "b", "x">>

CHARACTER_MESH_FILE == EntryName(2)

\* ord(c) of the characters of the entry names
CodePoint(c) ==
    CASE c = "-" -> 45 [] c = "." -> 46 [] c = "A" -> 65 [] c = "B" -> 66 [] c = "F" -> 70
      [] c = "S" -> 83 [] c = "X" -> 88 [] c = "a" -> 97 [] c = "b" -> 98
      [] c = "c" -> 99 [] c = "d" -> 100 [] c = "e" -> 101 [] c = "f" -> 102
      [] c = "t" -> 116 [] c = "x" -> 120

\* Python's  a < b  on strings
RECURSIVE StrLess(_, _)
StrLess(a, b) ==
    IF b = <<>> THEN FALSE
    ELSE IF a = <<>> THEN TRUE
    ELSE IF CodePoint(Head(a)) # CodePoint(Head(b))
         THEN CodePoint(Head(a)) < CodePoint(Head(b))
         ELSE StrLess(Tail(a), Tail(b))

\* str.endswith
EndsWith(str, suffix) ==
    Len(str) >= Len(suffix)
    /\ SubSeq(str, Len(str) - Len(suffix) + 1, Len(str)) = suffix

DotFbx == <<".", "f", "b", "x">>

\* The filter of main's listing loop.
IsInputFile(v, e) ==
    IF v = "vendor"
    THEN EndsWith(lower(EntryName(e)), DotFbx)
    ELSE EndsWith(EntryName(e), DotFbx) /\ EntryName(e) # CHARACTER_MESH_FILE

\* list.sort() of the paths: all are in SOURCE_DIR, so the names decide.
\* The entries of a directory are distinct, so each file's place is the
\* number of files whose name is less than its own.
SortFiles(files) ==
    LET listed == {files[i] : i \in 1..Len(files)}
    IN  [i \in 1..Len(files) |->
            CHOOSE e \in listed :
                Cardinality({x \in listed : StrLess(EntryName(x), EntryName(e))}) = i - 1]

\* The orders os.listdir may return the entries in.
RECURSIVE ListingsOf(_)
ListingsOf(dir) ==
    IF dir = {} THEN {<<>>}
    ELSE UNION {{<<e>> \o rest : rest \in ListingsOf(dir \ {e})} : e \in dir}

\* clean_filename(fbx_name) for every variant and every entry the directory
\* can hold.
CleanNames ==
    [v \in Variants |-> [e \in 1..(4 + Len(Letters)) |-> clean_filename(v, EntryName(e))]]

\* clean_name of the item's file
clean_name(v, e) == CleanNames[v][e]

\* A handler that would swallow the exception without counting it.
after_exception_uncounted(counts) == counts

\* The exception handler of main counts a failure and the loop goes on.
after_exception(counts) == [counts EXCEPT ![2] = counts[2] + 1]

\* The body of main's for loop: which counter the item's outcome increments.
\* counts is <<success_count, fail_count, skip_count>>.
count_result(v, result, counts) ==
    IF result = "raised" THEN after_exception(counts)
    ELSE IF v = "vendor"
    THEN CASE result = "True" -> [counts EXCEPT ![1] = counts[1] + 1]
           [] result = "None" -> [counts EXCEPT ![3] = counts[3] + 1]
           [] OTHER           -> [counts EXCEPT ![2] = counts[2] + 1]
    ELSE IF result = "True"
         THEN [counts EXCEPT ![1] = counts[1] + 1]
         ELSE [counts EXCEPT ![2] = counts[2] + 1]

\* A loop without the try/except: an exception would leave main.
after_item_unguarded(result) == IF result = "raised" THEN "crashed" ELSE "loop"

\* Where main goes after an item, whatever its outcome: on with the loop.
after_item(result) == "loop"

\* A per-item function that only warns, whatever the variant.
on_no_armature_warn(v) == "warn"

\* What the per-item function does when get_armature() returns None:
\* process_animation returns False, process_vendor_fbx prints a warning.
on_no_armature(v) == IF v = "vendor" THEN "warn" ELSE "return_false"

(***************************************************************************)
(* SpecBatch: one run of main.                                             *)
(***************************************************************************)
MaxEntries == 5

\* What the scene holds when the script starts: the startup cube, and
\* possibly a rig that is hidden from selection.
StartScenes ==
    {{[name |-> "Cube", type |-> "MESH", selectable |-> TRUE]},
     {[name |-> "Cube", type |-> "MESH", selectable |-> TRUE],
      [name |-> "Rig", type |-> "ARMATURE", selectable |-> FALSE]}}

\* What importing the base file can add to the scene.
BaseObjects ==
    {[name |-> "Armature", type |-> "ARMATURE", selectable |-> TRUE],
     [name |-> "Body", type |-> "MESH", selectable |-> TRUE],
     [name |-> "Helper", type |-> "EMPTY", selectable |-> FALSE]}

\* What the file may hold: nothing, a mesh alone, the character, or the
\* character with a helper object that the file marks as hidden.
BaseFiles ==
    {{},
     {o \in BaseObjects : o.type = "MESH"},
     {o \in BaseObjects : o.selectable},
     BaseObjects}

\* What importing the animation file can add to the scene.
AnimObjects ==
    {[name |-> "Armature.001", type |-> "ARMATURE", selectable |-> TRUE],
     [name |-> "Body.001", type |-> "MESH", selectable |-> TRUE]}

\* The clips that come with a set of objects: each armature brings its own.
ClipsOf(objects) ==
    {<<o.name, "|", "Take">> : o \in {x \in objects : x.type = "ARMATURE"}}

\* The stems of the files OUTPUT_DIR holds when the run starts.
OutputsAtStart(env) == IF env.output = "has_a" THEN {<<"a">>} ELSE {}

InitBatch ==
    /\ CfIdle
    /\ RmIdle
    /\ KaIdle
    /\ ScIdle
    /\ EaIdle
    /\ PaIdle
    /\ XaIdle
    /\ \E v \in Variants, src \in BOOLEAN, mk \in BOOLEAN, sk \in BOOLEAN,
          dir \in SUBSET (1..MaxEntries), out \in {"missing", "empty", "has_a"} :
          /\ v # "vendor" => sk = FALSE /\ out # "has_a"
          /\ out = "missing" => sk = FALSE
          /\ b_env = [variant |-> v, source_exists |-> src, dir |-> dir,
                      character_exists |-> (2 \in dir),
                      makedirs_ok |-> mk, skip_existing |-> sk, output |-> out]
    /\ b_pc = "check_source"
    /\ b_files = <<>>
    /\ b_idx = 1
    /\ success_count = 0
    /\ fail_count = 0
    /\ skip_count = 0
    /\ b_item = NoItem
    /\ b_objects \in StartScenes
    \* (a missing OUTPUT_DIR is tried with the plain startup scene)
    /\ b_env.output = "missing" => \A o \in b_objects : o.selectable
    /\ b_outputs = OutputsAtStart(b_env)
    /\ b_attempted = <<>>
    /\ b_actions = ClipsOf(b_objects)

\* if not os.path.exists(SOURCE_DIR): return
b_check_source ==
    /\ b_pc = "check_source"
    /\ b_pc' = IF ~b_env.source_exists THEN "aborted"
               ELSE IF b_env.variant = "vendor" THEN "makedirs" ELSE "check_char"
    /\ UNCHANGED <<b_env, b_files, b_idx, success_count, fail_count, skip_count,
                   b_item, b_objects, b_outputs, b_attempted, b_actions>>
    /\ UNCHANGED BOthers

\* A main that would go on without the character mesh file.
b_check_char_unchecked ==
    /\ b_pc = "check_char"
    /\ b_pc' = "makedirs"
    /\ UNCHANGED <<b_env, b_files, b_idx, success_count, fail_count, skip_count,
                   b_item, b_objects, b_outputs, b_attempted, b_actions>>
    /\ UNCHANGED BOthers

\* if not os.path.exists(character_path): return
b_check_char ==
    /\ b_pc = "check_char"
    /\ b_pc' = IF b_env.character_exists THEN "makedirs" ELSE "aborted"
    /\ UNCHANGED <<b_env, b_files, b_idx, success_count, fail_count, skip_count,
                   b_item, b_objects, b_outputs, b_attempted, b_actions>>
    /\ UNCHANGED BOthers

\* os.makedirs(OUTPUT_DIR, exist_ok=True): a missing directory is created;
\* an OSError leaves main
b_makedirs ==
    /\ b_pc = "makedirs"
    /\ b_pc' = IF b_env.makedirs_ok THEN "listdir" ELSE "crashed"
    /\ UNCHANGED <<b_env, b_files, b_idx, success_count, fail_count, skip_count,
                   b_item, b_objects, b_outputs, b_attempted, b_actions>>
    /\ UNCHANGED BOthers

\* for filename in os.listdir(SOURCE_DIR): if <filter>: append
\* (the directory is listed once: the run has no further use of the listing)
b_listdir ==
    /\ b_pc = "listdir"
    /\ \E listing \in ListingsOf(b_env.dir) :
          b_files' = SelectSeq(listing, LAMBDA e : IsInputFile(b_env.variant, e))
    /\ b_env' = [b_env EXCEPT !.dir = {}]
    /\ b_pc' = "sort"
    /\ UNCHANGED <<b_idx, success_count, fail_count, skip_count,
                   b_item, b_objects, b_outputs, b_attempted, b_actions>>
    /\ UNCHANGED BOthers

\* animation_files.sort()
b_sort ==
    /\ b_pc = "sort"
    /\ b_files' = SortFiles(b_files)
    /\ b_pc' = "loop"
    /\ UNCHANGED <<b_env, b_idx, success_count, fail_count, skip_count,
                   b_item, b_objects, b_outputs, b_attempted, b_actions>>
    /\ UNCHANGED BOthers

\* for anim_file in animation_files: try: call the per-item function
b_call_item ==
    /\ b_pc = "loop"
    /\ b_idx <= Len(b_files)
    /\ b_item' = [NoItem EXCEPT !.file = b_files[b_idx],
                                !.before = <<success_count, fail_count, skip_count>>,
                                !.scene_before = b_objects,
                                !.actions_before = b_actions,
                                !.outputs_before = b_outputs]
    /\ b_attempted' = Append(b_attempted, b_files[b_idx])
    /\ b_pc' = "p_begin"
    /\ UNCHANGED <<b_env, b_files, b_idx, success_count, fail_count, skip_count,
                   b_objects, b_outputs, b_actions>>
    /\ UNCHANGED BOthers

\* the loop is over: the summary is printed
b_summary ==
    /\ b_pc = "loop"
    /\ b_idx > Len(b_files)
    /\ b_pc' = "summary"
    /\ UNCHANGED <<b_env, b_files, b_idx, success_count, fail_count, skip_count,
                   b_item, b_objects, b_outputs, b_attempted, b_actions>>
    /\ UNCHANGED BOthers

\* The per-item function ends with `result` ("raised": with an exception)
\* after `calls` more calls of host operators.
ItemEnds(result, calls) ==
    /\ b_item' = [b_item EXCEPT !.result = result, !.host_calls = @ + calls]
    /\ b_pc' = "count"

\* The per-item function goes on to `pc` after one more call of a host operator.
ItemGoesOn(pc) ==
    /\ b_item' = [b_item EXCEPT !.host_calls = @ + 1]
    /\ b_pc' = pc

\* A process_vendor_fbx without the test of the output file.
b_begin_no_skip ==
    /\ b_pc = "p_begin"
    /\ b_pc' = "p_clear"
    /\ UNCHANGED <<b_env, b_files, b_idx, success_count, fail_count, skip_count,
                   b_item, b_objects, b_outputs, b_attempted, b_actions>>
    /\ UNCHANGED BOthers

\* clean_name, output_path; process_vendor_fbx: skip if the output exists
b_begin ==
    /\ b_pc = "p_begin"
    /\ IF /\ b_env.variant = "vendor"
          /\ b_env.skip_existing
          /\ clean_name(b_env.variant, b_item.file) \in b_outputs
       THEN ItemEnds("None", 0)
       ELSE b_pc' = "p_clear" /\ UNCHANGED b_item
    /\ UNCHANGED <<b_env, b_files, b_idx, success_count, fail_count, skip_count,
                   b_objects, b_outputs, b_attempted, b_actions>>
    /\ UNCHANGED BOthers

\* clear_scene() and the removal of every clip; a host operator may raise
b_clear_scene ==
    /\ b_pc = "p_clear"
    /\ \/ ItemEnds("raised", 1) /\ UNCHANGED <<b_objects, b_actions>>
       \/ /\ b_objects' = {o \in b_objects : ~o.selectable}
          /\ b_actions' = {}
          /\ ItemGoesOn("p_import_base")
    /\ UNCHANGED <<b_env, b_files, b_idx, success_count, fail_count, skip_count,
                   b_outputs, b_attempted>>
    /\ UNCHANGED BOthers

\* import_fbx(character_file) / import_fbx(fbx_file)
b_import_base ==
    /\ b_pc = "p_import_base"
    /\ \/ ItemEnds("raised", 1) /\ UNCHANGED <<b_objects, b_actions>>
       \/ /\ \E new \in BaseFiles :
                /\ b_objects' = b_objects \cup new
                /\ b_actions' = b_actions \cup ClipsOf(new)
          /\ ItemGoesOn("p_get_armature")
    /\ UNCHANGED <<b_env, b_files, b_idx, success_count, fail_count, skip_count,
                   b_outputs, b_attempted>>
    /\ UNCHANGED BOthers

\* get_armature() and get_mesh_objects(), and the test of the armature
b_get_armature ==
    /\ b_pc = "p_get_armature"
    /\ LET armatures == {o \in b_objects : o.type = "ARMATURE"}
           meshes    == {o.name : o \in {x \in b_objects : x.type = "MESH"}}
       IN  IF armatures = {}
           THEN IF on_no_armature(b_env.variant) = "return_false"
                THEN /\ b_item' = [b_item EXCEPT !.noarm = TRUE, !.result = "False"]
                     /\ b_pc' = "count"
                ELSE /\ b_item' = [b_item EXCEPT !.noarm = TRUE, !.char_mesh_names = meshes]
                     /\ b_pc' = "p_export"
           ELSE \E a \in armatures :
                   /\ b_item' = [b_item EXCEPT !.char_armature_name = a.name,
                                               !.char_mesh_names = meshes]
                   /\ b_pc' = IF b_env.variant = "vendor" THEN "p_export"
                              ELSE "p_import_anim"
    /\ UNCHANGED <<b_env, b_files, b_idx, success_count, fail_count, skip_count,
                   b_objects, b_outputs, b_attempted, b_actions>>
    /\ UNCHANGED BOthers

\* import_fbx(anim_file)
b_import_anim ==
    /\ b_pc = "p_import_anim"
    /\ \/ ItemEnds("raised", 1) /\ UNCHANGED <<b_objects, b_actions>>
       \/ /\ \E new \in SUBSET AnimObjects :
                /\ b_objects' = b_objects \cup new
                /\ b_actions' = b_actions \cup ClipsOf(new)
          /\ ItemGoesOn("p_duplicates")
    /\ UNCHANGED <<b_env, b_files, b_idx, success_count, fail_count, skip_count,
                   b_outputs, b_attempted>>
    /\ UNCHANGED BOthers

\* The objects the loop of process_animation means to remove.
DuplicatesOf(objects, char_armature_name, char_mesh_names) ==
    {o \in objects :
        \/ o.type = "ARMATURE" /\ o.name # char_armature_name
        \/ o.type = "MESH" /\ o.name \notin char_mesh_names}

\* The loop removes objects from scene.objects while it iterates over it.
\* The first duplicate it meets is removed; after a removal the iterator may
\* go on, pass over an object, or end, so any other duplicate may stay.
RemovalOutcomes(objects, duplicates) ==
    {objects \ removed :
        removed \in {r \in SUBSET duplicates : duplicates # {} => r # {}}}

\* Delete any duplicate armatures/meshes from the animation import
b_remove_duplicates ==
    /\ b_pc = "p_duplicates"
    /\ b_objects' \in RemovalOutcomes(b_objects,
                        DuplicatesOf(b_objects, b_item.char_armature_name,
                                     b_item.char_mesh_names))
    /\ ItemGoesOn("p_export")
    /\ UNCHANGED <<b_env, b_files, b_idx, success_count, fail_count, skip_count,
                   b_outputs, b_attempted, b_actions>>
    /\ UNCHANGED BOthers

\* try: export_usdz(output_path); return True / except Exception: return False
b_export ==
    /\ b_pc = "p_export"
    /\ \/ /\ b_item' = [b_item EXCEPT !.export_called = TRUE, !.result = "True",
                                     !.host_calls = @ + 1]
          /\ b_outputs' = b_outputs \cup {clean_name(b_env.variant, b_item.file)}
       \/ /\ b_item' = [b_item EXCEPT !.export_called = TRUE, !.result = "False",
                                     !.host_calls = @ + 1]
          /\ UNCHANGED b_outputs
    /\ b_pc' = "count"
    /\ UNCHANGED <<b_env, b_files, b_idx, success_count, fail_count, skip_count,
                   b_objects, b_attempted, b_actions>>
    /\ UNCHANGED BOthers

\* What main keeps of an item once the per-item function has returned: the
\* file, the outcome and what the item did; the function's locals are gone.
Returned(item) ==
    [NoItem EXCEPT !.file = item.file, !.result = item.result, !.noarm = item.noarm,
                   !.export_called = item.export_called, !.before = item.before]

\* back in main: the outcome is counted and the loop goes on
b_count ==
    /\ b_pc = "count"
    /\ LET counts == count_result(b_env.variant, b_item.result,
                                  <<success_count, fail_count, skip_count>>)
       IN  /\ success_count' = counts[1]
           /\ fail_count' = counts[2]
           /\ skip_count' = counts[3]
    /\ b_idx' = b_idx + 1
    /\ b_pc' = after_item(b_item.result)
    /\ b_item' = Returned(b_item)
    /\ UNCHANGED <<b_env, b_files, b_objects, b_outputs, b_attempted, b_actions>>
    /\ UNCHANGED BOthers

NextBatch ==
    \/ b_check_source \/ b_check_char \/ b_makedirs \/ b_listdir \/ b_sort
    \/ b_call_item \/ b_summary \/ b_begin \/ b_clear_scene \/ b_import_base
    \/ b_get_armature \/ b_import_anim \/ b_remove_duplicates \/ b_export \/ b_count

SpecBatch == InitBatch /\ [][NextBatch]_vars

\* The script runs to its end: no step that can be taken is put off for ever.
FairSpecBatch == SpecBatch /\ WF_vars(NextBatch)

\* The three counters, as main holds them.
Counts == <<success_count, fail_count, skip_count>>

\* The last item has been counted and main is about to take the next one.
ItemCounted == b_pc \in {"loop", "summary"} /\ b_item # NoItem

\* Exactly one of the counters is one more than before the item, the
\* others are as they were.
OneCounterUp ==
    \E k \in 1..3 :
        \A n \in 1..3 :
            Counts[n] = IF n = k THEN b_item.before[n] + 1 ELSE b_item.before[n]

\* C7: in every variant, whatever items fail, raise or are skipped, the
\* counters sum to the number of input files when the summary is printed
\* (skip_count stays 0 outside the vendor variant), and each item that has
\* been processed has incremented exactly one counter.
C7_CountsSumToN ==
    /\ b_pc = "summary" => success_count + fail_count + skip_count = Len(b_files)
    /\ b_env.variant # "vendor" => skip_count = 0
    /\ ItemCounted => OneCounterUp
    /\ b_pc = "loop" => success_count + fail_count + skip_count = b_idx - 1

\* A vendor run of at least three files ends with an export, a skipped item
\* and a failed item.
C7_Witness ==
    /\ b_pc = "summary"
    /\ b_env.variant = "vendor"
    /\ success_count >= 1
    /\ skip_count >= 1
    /\ fail_count >= 1
    /\ success_count + skip_count + fail_count = Len(b_files)

\* The list is in strictly increasing order of the file names.
Sorted(files) ==
    \A i \in 1..(Len(files) - 1) : StrLess(EntryName(files[i]), EntryName(files[i + 1]))

\* main has begun its loop over the sorted list.
InLoop ==
    b_pc \in {"loop", "p_begin", "p_clear", "p_import_base", "p_get_armature",
              "p_import_anim", "p_duplicates", "p_export", "count"}

\* C9: an exception or failure in one item never aborts the batch: the
\* files attempted so far are the sorted list's first files, in its order,
\* each once; at the summary every file of the list has been attempted
\* exactly once; and a run that has entered the loop always reaches the
\* summary.
C9_BatchNeverAborts ==
    /\ [](InLoop => /\ Sorted(b_files)
                    /\ b_attempted = SubSeq(b_files, 1, Len(b_attempted))
                    /\ Len(b_attempted) = IF b_pc = "loop" THEN b_idx - 1 ELSE b_idx)
    /\ [](b_pc = "summary" => b_attempted = b_files)
    /\ [](b_pc # "crashed" \/ b_attempted = <<>>)
    /\ (InLoop ~> b_pc = "summary")

\* A run of three files with one failure before the last item reaches the
\* summary after a successful last item.
C9_Witness ==
    /\ b_pc = "summary"
    /\ Len(b_attempted) = 3
    /\ fail_count = 1
    /\ success_count = 2
    /\ b_item.result = "True"

\* What the claim says of an item whose scene has no armature after the
\* import: the failure outcome, no export, counted in fail_count, and on to
\* the next item.
NoArmatureFails ==
    b_item.noarm =>
        /\ b_pc \in {"count", "loop", "summary"}
        /\ b_item.result = "False"
        /\ ~b_item.export_called
        /\ ItemCounted => /\ fail_count = b_item.before[2] + 1
                          /\ success_count = b_item.before[1]
                          /\ skip_count = b_item.before[3]
                          /\ Len(b_attempted) = b_idx - 1

\* C10 as stated: in each variant (player, enemy, vendor) an item with no
\* armature after the import is a failure, is not exported, is counted in
\* fail_count, and the batch moves on.
C10_NoArmatureFails_AllVariants == NoArmatureFails

\* C10 amended: in the player and enemy variants an item with no armature
\* after the import is a failure, is not exported, is counted in fail_count,
\* and the batch moves on.  (The vendor variant prints a warning and exports.)
C10_NoArmatureFails_PlayerEnemy ==
    b_env.variant \in {"player", "enemy"} => NoArmatureFails

\* A player item with no armature has been counted and another file follows.
C10_Witness ==
    /\ b_env.variant = "player"
    /\ b_item.noarm
    /\ b_pc = "loop"
    /\ b_idx <= Len(b_files)

\* The vendor variant exports an item that has no armature.
C10_VendorExports ==
    ~(b_env.variant = "vendor" /\ b_item.noarm /\ b_item.export_called
      /\ b_item.result = "True")

\* The per-item function has returned the skipped outcome to main.
Skipped == b_pc = "count" /\ b_item.result = "None"

\* The per-item function is past its test of the output file.
PastSkipTest ==
    \/ b_pc \in {"p_clear", "p_import_base", "p_get_armature", "p_import_anim",
                 "p_duplicates", "p_export"}
    \/ b_pc = "count" /\ b_item.result # "None"

\* C12: in the vendor converter with skip_existing on, an item whose output
\* file exists returns None before any host operation: the scene, the clips
\* and the output files are as they were when the function was called, no
\* export was made, and main counts the item in skip_count only.  None is
\* returned in no other case.
C12_SkipLeavesAllUnchanged ==
    /\ Skipped =>
          /\ b_env.variant = "vendor" /\ b_env.skip_existing
          /\ clean_name(b_env.variant, b_item.file) \in b_item.outputs_before
          /\ b_item.host_calls = 0
          /\ ~b_item.export_called
          /\ b_objects = b_item.scene_before
          /\ b_actions = b_item.actions_before
          /\ b_outputs = b_item.outputs_before
    /\ PastSkipTest /\ b_env.variant = "vendor" /\ b_env.skip_existing =>
          clean_name(b_env.variant, b_item.file) \notin b_item.outputs_before
    /\ ItemCounted /\ b_item.result = "None" =>
          /\ skip_count = b_item.before[3] + 1
          /\ success_count = b_item.before[1]
          /\ fail_count = b_item.before[2]

\* An item is skipped while the scene and the clip library hold what an
\* earlier item of the run imported.
C12_Witness ==
    /\ Skipped
    /\ b_actions # {}
    /\ \E o \in b_objects : o \in BaseObjects
    /\ b_idx > 1

\* What makes main return before the loop.
Fatal(env) == ~env.source_exists \/ ~env.character_exists

\* Nothing has been processed: no call of the per-item function, and the
\* scene, the clips and the output files are those of the start.
NothingProcessed ==
    /\ b_attempted = <<>>
    /\ b_item = NoItem
    /\ b_objects \in StartScenes
    /\ b_actions = ClipsOf(b_objects)
    /\ b_outputs = OutputsAtStart(b_env)

\* C14 as stated: in the player and enemy converters a missing source
\* directory, a missing output directory or a missing base mesh file is
\* fatal: the run ends before the file list is read and nothing is processed.
C14_MissingPathsFatal ==
    b_env.variant \in {"player", "enemy"}
    /\ (Fatal(b_env) \/ b_env.output = "missing") =>
        /\ b_pc \in {"check_source", "check_char", "makedirs", "aborted", "crashed"}
        /\ NothingProcessed

\* C14 amended: in the player and enemy converters a missing source
\* directory or a missing base mesh file is fatal: main returns after the
\* message and nothing is processed.  Main returns early for no other reason:
\* a missing output directory is created by os.makedirs and the run goes on.
C14_MissingInputsFatal ==
    b_env.variant \in {"player", "enemy"} =>
        /\ Fatal(b_env) =>
              /\ b_pc \in {"check_source", "check_char", "aborted"}
              /\ NothingProcessed
        /\ b_pc = "aborted" => Fatal(b_env)

\* The player run has returned because the character mesh file is missing.
C14_Witness ==
    /\ b_env.variant = "player"
    /\ b_env.source_exists
    /\ ~b_env.character_exists
    /\ b_pc = "aborted"

\* A run whose output directory was missing exports a file.
C14_MissingOutputGoesOn ==
    ~(b_env.output = "missing" /\ b_pc = "summary" /\ success_count >= 1)

\* C15: two distinct input files of a run never write the same output path,
\* so the number of files written equals success_count.  (Stated for runs
\* that start without the file "a.usdz" in OUTPUT_DIR: every file there at
\* the end was written by the run.)
C15_OneFilePerSuccess ==
    b_env.output # "has_a" =>
        /\ b_pc = "count" /\ b_item.result = "True" =>
              clean_name(b_env.variant, b_item.file) \notin b_item.outputs_before
        /\ b_pc = "summary" => Cardinality(b_outputs) = success_count

\* The player converter exports two files of one run to the same path.
C15_PlayerOverwrites ==
    ~(/\ b_env.variant = "player"
      /\ b_pc = "summary"
      /\ success_count = 2
      /\ Cardinality(b_outputs) = 1)


\* C20: in every item that is not skipped the host operations come in one fixed
\* order that starts with the scene reset, so that no object and no clip of a
\* previous item is present when the item's first import starts.
C20_ItemsIsolated ==
    b_pc = "p_import_base" =>
        /\ b_item.host_calls = 1
        /\ b_actions = {}
        /\ \A o \in b_objects : o \notin BaseObjects \cup AnimObjects

\* What the reset does give: when the first import starts it is the only host
\* operation of the item so far, no clip is left, and every object left is one
\* that select_all cannot select.
C20_ResetFirst ==
    b_pc = "p_import_base" =>
        /\ b_item.host_calls = 1
        /\ b_actions = {}
        /\ \A o \in b_objects : ~o.selectable

\* An object imported by an earlier item is in the scene when an item's first
\* import starts.
C20_LeftoverReached ==
    ~(/\ b_pc = "p_import_base"
      /\ b_idx > 1
      /\ \E o \in b_objects : o \in BaseObjects)

\* ---------------------------------------------------------------------------
\* export_all_actions (src/Scripts/export_animation.py): every clip of the
\* project is assigned to the armature in turn and exported, then the clip
\* that was active is put back.
\* ---------------------------------------------------------------------------

\* The largest number of clips in bpy.data.actions.
MaxClips == 3

ClipPool == <<"Idle", "Walk", "Run", "Jump">>

ClipNames(n) == {ClipPool[i] : i \in 1..n}

\* bpy.data.actions in the order the loop meets it: distinct clip names
ClipSeqs(n) ==
    {q \in UNION {[1..k -> ClipNames(n)] : k \in 0..n} :
        \A i, j \in 1..Len(q) : i # j => q[i] # q[j]}

\* "if original_action:" -- a clip object is true, None is false
restores(original_action) == original_action # "None"

InitAll ==
    /\ ea_pc = "find"
    /\ ea_found \in BOOLEAN
    /\ ea_clips \in ClipSeqs(MaxClips)
    /\ ea_has_data \in BOOLEAN
    /\ ea_action \in {"None"} \cup {ea_clips[i] : i \in 1..Len(ea_clips)}
    /\ ~ea_has_data => ea_action = "None"
    /\ ~ea_found => ~ea_has_data /\ ea_clips = <<>>
    /\ ea_before = ea_action
    /\ ea_original = "None"
    /\ ea_k = 0
    /\ ea_exported = <<>>
    /\ CfIdle /\ RmIdle /\ KaIdle /\ ScIdle /\ BIdle /\ PaIdle /\ XaIdle

\* lines 166-178: no armature, print the error and return
ea_find_armature ==
    /\ ea_pc = "find"
    /\ ea_pc' = IF ea_found THEN "store" ELSE "returned"
    /\ UNCHANGED <<ea_found, ea_clips, ea_has_data, ea_action, ea_before,
                   ea_original, ea_k, ea_exported>>
    /\ UNCHANGED EaOthers

\* line 188: original_action = armature.animation_data.action if
\* armature.animation_data else None
ea_store_original ==
    /\ ea_pc = "store"
    /\ ea_original' = IF ea_has_data THEN ea_action ELSE "None"
    /\ ea_k' = 1
    /\ ea_pc' = "loop"
    /\ UNCHANGED <<ea_found, ea_clips, ea_has_data, ea_action, ea_before,
                   ea_exported>>
    /\ UNCHANGED EaOthers

\* lines 191-195: the next clip is assigned to the armature
ea_assign ==
    /\ ea_pc = "loop"
    /\ ea_k <= Len(ea_clips)
    /\ ea_has_data' = TRUE
    /\ ea_action' = ea_clips[ea_k]
    /\ ea_pc' = "export"
    /\ UNCHANGED <<ea_found, ea_clips, ea_before, ea_original, ea_k, ea_exported>>
    /\ UNCHANGED EaOthers

\* lines 197-200: export_animation(armature.name, output_path); it returns
\* the path, or the write raises and the exception leaves export_all_actions
ea_export ==
    /\ ea_pc = "export"
    /\ \/ /\ ea_exported' = Append(ea_exported, ea_action)
          /\ ea_k' = ea_k + 1
          /\ ea_pc' = "loop"
       \/ /\ ea_pc' = "raised"
          /\ UNCHANGED <<ea_exported, ea_k>>
    /\ UNCHANGED <<ea_found, ea_clips, ea_has_data, ea_action, ea_before,
                   ea_original>>
    /\ UNCHANGED EaOthers

\* lines 203-207: the loop is over; restore and return exported
ea_restore ==
    /\ ea_pc = "loop"
    /\ ea_k > Len(ea_clips)
    /\ ea_action' = IF restores(ea_original) THEN ea_original ELSE ea_action
    /\ ea_pc' = "returned"
    /\ UNCHANGED <<ea_found, ea_clips, ea_has_data, ea_before, ea_original,
                   ea_k, ea_exported>>
    /\ UNCHANGED EaOthers

NextAll ==
    \/ ea_find_armature
    \/ ea_store_original
    \/ ea_assign
    \/ ea_export
    \/ ea_restore

SpecAll == InitAll /\ [][NextAll]_vars

\* C13: after export_all_actions returns, the armature's active clip is the
\* clip that was active before the call, the case of no active clip included,
\* for any number of clips in the project.
C13_ActiveClipRestored ==
    ea_pc = "returned" => ea_action = ea_before

\* What the code does keep: a clip that was active before the call is active
\* again after it, and every clip of the project was exported.
C13_RestoredWhenActive ==
    ea_pc = "returned" /\ ea_before # "None" =>
        /\ ea_action = ea_before
        /\ ea_exported = ea_clips

\* With no clip active before the call the armature ends with the last clip
\* of the project.
C13_LastClipStays ==
    ea_pc = "returned" /\ ea_found /\ ea_before = "None" /\ ea_clips # <<>> =>
        ea_action = ea_clips[Len(ea_clips)]


\* ---------------------------------------------------------------------------
\* process_animation and export_usdz in detail: one call of process_animation
\* on one animation file, from the scene reset to the return.
\* (src/MetalMan/Scripts/export_animations_to_usdz.py, lines 182-378; the
\* enemy script has the same code.)
\* ---------------------------------------------------------------------------

\* The largest number of objects in the animation file.
MaxImported == 2

\* An object of an FBX file: its type, and whether it comes with a clip.
FileObjects ==
    {[type |-> "ARMATURE", clip |-> TRUE],
     [type |-> "ARMATURE", clip |-> FALSE],
     [type |-> "MESH", clip |-> FALSE],
     [type |-> "EMPTY", clip |-> FALSE]}

\* The animation files: up to n objects, in any order.
AnimFiles(n) == UNION {[1..k -> FileObjects] : k \in 0..n}

\* The character files: the character with a default clip, the character
\* without one, a file without armature, a character with a second rig.
CharacterFiles ==
    {<<[type |-> "ARMATURE", clip |-> TRUE], [type |-> "MESH", clip |-> FALSE]>>,
     <<[type |-> "ARMATURE", clip |-> FALSE], [type |-> "MESH", clip |-> FALSE]>>,
     <<[type |-> "MESH", clip |-> FALSE]>>,
     <<[type |-> "ARMATURE", clip |-> TRUE], [type |-> "ARMATURE", clip |-> TRUE],
       [type |-> "MESH", clip |-> FALSE]>>}

\* bpy.app.version
Versions == {<<3, 6, 5>>, <<4, 0, 0>>, <<4, 2, 1>>}

\* The scene and the clips the host holds when process_animation is called:
\* an empty file, the default scene, or what an earlier item left behind.
\* A name <<"Body", 1>> stands for "Body.001".
ItemStarts ==
    {[objects |-> <<>>, actions |-> {}],
     [objects |-> <<[name |-> <<"Cube", 0>>, type |-> "MESH", action |-> "None",
                     origin |-> "start", selectable |-> TRUE]>>,
      actions |-> {}],
     [objects |-> <<[name |-> <<"Body", 0>>, type |-> "MESH", action |-> "None",
                     origin |-> "start", selectable |-> FALSE],
                    [name |-> <<"Armature", 0>>, type |-> "ARMATURE",
                     action |-> <<"Take", 0>>, origin |-> "start",
                     selectable |-> TRUE]>>,
      actions |-> {<<"Take", 0>>}]}

\* scene.frame_start and scene.frame_end of a new scene
DefaultFrame == <<1, 250>>

\* int(action.frame_range[0]), int(action.frame_range[1])
frame_range(action) == <<1, 24 + action[2]>>

\* The name the host gives a new object or clip: the name in the file, with
\* the first free numeric suffix when the name is taken.
unique_name(base, used) ==
    <<base, CHOOSE n \in 0..Cardinality(used) :
                /\ <<base, n>> \notin used
                /\ \A m \in 0..(n - 1) : <<base, m>> \in used>>

ObjectName(type) ==
    CASE type = "ARMATURE" -> "Armature"
      [] type = "MESH" -> "Body"
      [] OTHER -> "Empty"

NamesOf(objects) == {objects[i].name : i \in 1..Len(objects)}

\* import_fbx(filepath): the objects of the file are added to the scene and
\* their clips to bpy.data.actions; an armature with a clip has it active.
RECURSIVE import_fbx(_, _, _, _)
import_fbx(objects, actions, file, origin) ==
    IF file = <<>>
    THEN [objects |-> objects, actions |-> actions]
    ELSE LET t    == Head(file)
             clip == IF t.clip THEN unique_name("Take", actions) ELSE "None"
             obj  == [name |-> unique_name(ObjectName(t.type), NamesOf(objects)),
                      type |-> t.type, action |-> clip, origin |-> origin,
                      selectable |-> TRUE]
         IN  import_fbx(Append(objects, obj),
                        IF t.clip THEN actions \cup {clip} ELSE actions,
                        Tail(file), origin)

\* select_all(action='SELECT') and delete(): what cannot be selected stays
clear_scene(objects) == SelectSeq(objects, LAMBDA o : ~o.selectable)

\* get_armature(): the first armature of scene.objects, 0 for None
get_armature(objects) ==
    IF \E i \in 1..Len(objects) : objects[i].type = "ARMATURE"
    THEN CHOOSE i \in 1..Len(objects) :
            /\ objects[i].type = "ARMATURE"
            /\ \A j \in 1..(i - 1) : objects[j].type # "ARMATURE"
    ELSE 0

\* get_mesh_objects(), as names
get_mesh_names(objects) ==
    {objects[i].name : i \in {j \in 1..Len(objects) : objects[j].type = "MESH"}}

\* for action in list(bpy.data.actions): bpy.data.actions.remove(action) --
\* no object keeps a removed clip
without_actions(objects) ==
    [i \in 1..Len(objects) |-> [objects[i] EXCEPT !.action = "None"]]

\* blender_version >= (4, 0, 0): tuples compare item by item
version_ge(a, b) ==
    \/ a[1] > b[1]
    \/ a[1] = b[1] /\ a[2] > b[2]
    \/ a[1] = b[1] /\ a[2] = b[2] /\ a[3] >= b[3]

\* the parameter profile of the first call of the export operator
export_profile(version) ==
    IF version_ge(version, <<4, 0, 0>>) THEN "blender4" ELSE "blender3"

\* "except TypeError": only a parameter mismatch leads to the minimal call
retry_on_any(outcome) == outcome # "ok"

retry_on(outcome) == outcome = "TypeError"

\* What a call of bpy.ops.wm.usd_export can do.
ExportOutcomes == {"ok", "TypeError", "RuntimeError"}

\* lines 311-319: the clip of the first armature of the scene that is not the
\* character's and has an active clip; "None" when there is none
fallback_none(objects, char_armature_name) == "None"

fallback_action(objects, char_armature_name) ==
    LET hits == {i \in 1..Len(objects) :
                    /\ objects[i].type = "ARMATURE"
                    /\ objects[i].name # char_armature_name
                    /\ objects[i].action # "None"}
    IN  IF hits = {} THEN "None"
        ELSE objects[CHOOSE i \in hits : \A j \in hits : i <= j].action

\* lines 303-319: list(new_actions)[0] is any of the new clips, the order of a
\* set being the host's; without new clips the fallback decides
target_actions(new_actions, objects, char_armature_name) ==
    IF new_actions # {} THEN new_actions
    ELSE {fallback_action(objects, char_armature_name)}

InitItem ==
    /\ CfIdle /\ RmIdle /\ KaIdle /\ ScIdle /\ BIdle /\ EaIdle /\ XaIdle
    /\ \E v \in Versions, c \in CharacterFiles :
           pa_env = [version |-> v, character |-> c]
    /\ pa_item \in AnimFiles(MaxImported)
    /\ \E st \in ItemStarts : pa_objects = st.objects /\ pa_actions = st.actions
    /\ pa_frame = DefaultFrame
    /\ pa_pc = "clear"
    /\ pa_local = NoLocals
    /\ pa_iter = 0
    /\ pa_calls = <<>>
    /\ pa_log = <<>>

\* process_animation returns `result` ("True", "False"), or an exception
\* leaves it ("raised").
ItemReturns(result) ==
    /\ pa_local' = [pa_local EXCEPT !.result = result]
    /\ pa_pc' = "returned"

\* line 252: clear_scene(); the host operators may raise
pa_clear_scene ==
    /\ pa_pc = "clear"
    /\ pa_log' = Append(pa_log, "clear_scene")
    /\ \/ /\ pa_objects' = clear_scene(pa_objects)
          /\ pa_pc' = "remove_actions"
          /\ UNCHANGED pa_local
       \/ /\ ItemReturns("raised")
          /\ UNCHANGED pa_objects
    /\ UNCHANGED <<pa_env, pa_item, pa_actions, pa_frame, pa_iter, pa_calls>>
    /\ UNCHANGED PaOthers

\* lines 255-256: every clip is removed
pa_remove_actions ==
    /\ pa_pc = "remove_actions"
    /\ pa_actions' = {}
    /\ pa_objects' = without_actions(pa_objects)
    /\ pa_pc' = "import_base"
    /\ UNCHANGED <<pa_env, pa_item, pa_frame, pa_local, pa_iter, pa_calls, pa_log>>
    /\ UNCHANGED PaOthers

\* line 263: import_fbx(character_file)
pa_import_base ==
    /\ pa_pc = "import_base"
    /\ pa_log' = Append(pa_log, "import_base")
    /\ \/ /\ LET after == import_fbx(pa_objects, pa_actions, pa_env.character, "base")
             IN  /\ pa_objects' = after.objects
                 /\ pa_actions' = after.actions
          /\ pa_pc' = "get_armature"
          /\ UNCHANGED pa_local
       \/ /\ ItemReturns("raised")
          /\ UNCHANGED <<pa_objects, pa_actions>>
    /\ UNCHANGED <<pa_env, pa_item, pa_frame, pa_iter, pa_calls>>
    /\ UNCHANGED PaOthers

\* lines 266-272: the character's armature, or return False
pa_get_armature ==
    /\ pa_pc = "get_armature"
    /\ LET char_armature == get_armature(pa_objects)
       IN  IF char_armature = 0
           THEN ItemReturns("False")
           ELSE /\ pa_local' = [pa_local EXCEPT
                                  !.char_armature_name = pa_objects[char_armature].name,
                                  !.after_base = NamesOf(pa_objects)]
                /\ pa_pc' = "clear_default"
    /\ UNCHANGED <<pa_env, pa_item, pa_objects, pa_actions, pa_frame, pa_iter,
                   pa_calls, pa_log>>
    /\ UNCHANGED PaOthers

\* lines 275-292: the character's default clip is cleared; the names of the
\* meshes and of the clips are recorded
pa_clear_default ==
    /\ pa_pc = "clear_default"
    /\ pa_objects' = [i \in 1..Len(pa_objects) |->
                        IF pa_objects[i].name = pa_local.char_armature_name
                        THEN [pa_objects[i] EXCEPT !.action = "None"]
                        ELSE pa_objects[i]]
    /\ pa_local' = [pa_local EXCEPT !.char_mesh_names = get_mesh_names(pa_objects),
                                    !.actions_before_anim = pa_actions]
    /\ pa_pc' = "import_anim"
    /\ UNCHANGED <<pa_env, pa_item, pa_actions, pa_frame, pa_iter, pa_calls, pa_log>>
    /\ UNCHANGED PaOthers

\* lines 296-300: import_fbx(anim_file); new_actions
pa_import_anim ==
    /\ pa_pc = "import_anim"
    /\ pa_log' = Append(pa_log, "import_anim")
    /\ \/ /\ LET after == import_fbx(pa_objects, pa_actions, pa_item, "anim")
             IN  /\ pa_objects' = after.objects
                 /\ pa_actions' = after.actions
                 /\ pa_local' = [pa_local EXCEPT !.new_actions =
                                    after.actions \ pa_local.actions_before_anim]
          /\ pa_pc' = "pick"
       \/ /\ ItemReturns("raised")
          /\ UNCHANGED <<pa_objects, pa_actions>>
    /\ UNCHANGED <<pa_env, pa_item, pa_frame, pa_iter, pa_calls>>
    /\ UNCHANGED PaOthers

\* lines 303-319: the target clip
pa_pick_action ==
    /\ pa_pc = "pick"
    /\ \E new_action \in target_actions(pa_local.new_actions, pa_objects,
                                        pa_local.char_armature_name) :
          pa_local' = [pa_local EXCEPT !.new_action = new_action]
    /\ pa_pc' = "apply"
    /\ UNCHANGED <<pa_env, pa_item, pa_objects, pa_actions, pa_frame, pa_iter,
                   pa_calls, pa_log>>
    /\ UNCHANGED PaOthers

\* lines 321-358: with a target clip, its root motion is stripped, it is
\* assigned to the character's armature and the scene takes its frame range;
\* without one a warning is printed
pa_apply_action ==
    /\ pa_pc = "apply"
    /\ IF pa_local.new_action # "None"
       THEN /\ pa_objects' = [i \in 1..Len(pa_objects) |->
                                IF pa_objects[i].name = pa_local.char_armature_name
                                THEN [pa_objects[i] EXCEPT !.action = pa_local.new_action]
                                ELSE pa_objects[i]]
            /\ pa_frame' = frame_range(pa_local.new_action)
            /\ pa_log' = pa_log \o <<"strip_root_motion", "assign_action", "frame_range">>
       ELSE UNCHANGED <<pa_objects, pa_frame, pa_log>>
    /\ pa_iter' = 1
    /\ pa_pc' = "duplicates"
    /\ UNCHANGED <<pa_env, pa_item, pa_actions, pa_local, pa_calls>>
    /\ UNCHANGED PaOthers

\* lines 363-368: the test of the removal loop
is_duplicate(obj, char_armature_name, char_mesh_names) ==
    \/ obj.type = "ARMATURE" /\ obj.name # char_armature_name
    \/ obj.type = "MESH" /\ obj.name \notin char_mesh_names

\* The loop removes objects from scene.objects while it iterates over it, which
\* the host leaves undefined: after a removal the iterator may go on with the
\* object that followed, pass over it, or end.
IteratorAfterRemoval(i, len) == {i, i + 1, len + 1}

\* lines 362-368: one round of the loop
pa_duplicates_step ==
    /\ pa_pc = "duplicates"
    /\ pa_iter <= Len(pa_objects)
    /\ IF is_duplicate(pa_objects[pa_iter], pa_local.char_armature_name,
                       pa_local.char_mesh_names)
       THEN /\ pa_objects' = SubSeq(pa_objects, 1, pa_iter - 1) \o
                             SubSeq(pa_objects, pa_iter + 1, Len(pa_objects))
            /\ pa_iter' \in {k \in IteratorAfterRemoval(pa_iter, Len(pa_objects) - 1) :
                                k <= Len(pa_objects)}
       ELSE /\ pa_iter' = pa_iter + 1
            /\ UNCHANGED pa_objects
    /\ UNCHANGED <<pa_env, pa_item, pa_pc, pa_actions, pa_frame, pa_local,
                   pa_calls, pa_log>>
    /\ UNCHANGED PaOthers

\* the loop is over; lines 371-373: export_usdz is called
pa_duplicates_done ==
    /\ pa_pc = "duplicates"
    /\ pa_iter > Len(pa_objects)
    /\ pa_log' = Append(pa_log, "remove_duplicates")
    /\ pa_pc' = "export"
    /\ UNCHANGED <<pa_env, pa_item, pa_objects, pa_actions, pa_frame, pa_local,
                   pa_iter, pa_calls>>
    /\ UNCHANGED PaOthers

\* export_usdz, lines 185-188: os.makedirs and select_all; either may raise,
\* which process_animation (376-378) turns into False
pa_export_begin ==
    /\ pa_pc = "export"
    /\ pa_log' = Append(pa_log, "export")
    /\ \/ pa_pc' = "export_first" /\ UNCHANGED pa_local
       \/ ItemReturns("False")
    /\ UNCHANGED <<pa_env, pa_item, pa_objects, pa_actions, pa_frame, pa_iter,
                   pa_calls>>
    /\ UNCHANGED PaOthers

\* export_usdz, lines 194-226: the call with the profile of the version
pa_export_first ==
    /\ pa_pc = "export_first"
    /\ \E outcome \in ExportOutcomes :
          /\ pa_calls' = Append(pa_calls, [profile |-> export_profile(pa_env.version),
                                           outcome |-> outcome])
          /\ IF outcome = "ok" THEN ItemReturns("True")
             ELSE IF retry_on(outcome)
                  THEN pa_pc' = "export_minimal" /\ UNCHANGED pa_local
                  ELSE ItemReturns("False")
    /\ UNCHANGED <<pa_env, pa_item, pa_objects, pa_actions, pa_frame, pa_iter,
                   pa_log>>
    /\ UNCHANGED PaOthers

\* export_usdz, lines 227-230: the call with the minimal parameters; what it
\* raises leaves export_usdz
pa_export_minimal ==
    /\ pa_pc = "export_minimal"
    /\ \E outcome \in ExportOutcomes :
          /\ pa_calls' = Append(pa_calls, [profile |-> "minimal", outcome |-> outcome])
          /\ ItemReturns(IF outcome = "ok" THEN "True" ELSE "False")
    /\ UNCHANGED <<pa_env, pa_item, pa_objects, pa_actions, pa_frame, pa_iter,
                   pa_log>>
    /\ UNCHANGED PaOthers

NextItem ==
    \/ pa_clear_scene
    \/ pa_remove_actions
    \/ pa_import_base
    \/ pa_get_armature
    \/ pa_clear_default
    \/ pa_import_anim
    \/ pa_pick_action
    \/ pa_apply_action
    \/ pa_duplicates_step
    \/ pa_duplicates_done
    \/ pa_export_begin
    \/ pa_export_first
    \/ pa_export_minimal

SpecItem == InitItem /\ [][NextItem]_vars

TypeItem == pa_pc \in {"clear", "remove_actions", "import_base", "get_armature",
                       "clear_default", "import_anim", "pick", "apply", "duplicates",
                       "export", "export_first", "export_minimal", "returned"}

\* ---- export_usdz: the calls of the export operator ----

\* C11: export_usdz calls the export operator at most twice per item: first
\* with the profile of the host version, a second time with the minimal
\* parameters only if the first call raised TypeError; any other error of the
\* first call, or any error of the second, makes the item fail with no further
\* call.
C11_AtMostTwoExportCalls ==
    LET n == Len(pa_calls)
    IN  /\ n <= 2
        /\ n >= 1 =>
              pa_calls[1].profile =
                  (IF pa_env.version[1] >= 4 THEN "blender4" ELSE "blender3")
        /\ n = 2 =>
              /\ pa_calls[1].outcome = "TypeError"
              /\ pa_calls[2].profile = "minimal"
        /\ n = 1 /\ pa_calls[1].outcome = "TypeError" => pa_pc = "export_minimal"
        /\ (n >= 1 /\ ~(n = 1 /\ pa_calls[1].outcome = "TypeError")) =>
              /\ pa_pc = "returned"
              /\ pa_local.result =
                    (IF pa_calls[n].outcome = "ok" THEN "True" ELSE "False")
        /\ pa_pc = "returned" /\ pa_local.result = "True" =>
              n >= 1 /\ pa_calls[n].outcome = "ok"

\* The first call raised TypeError and the minimal call exported the item.
C11_Witness ==
    /\ pa_pc = "returned"
    /\ Len(pa_calls) = 2
    /\ pa_calls[1].outcome = "TypeError"
    /\ pa_calls[2].outcome = "ok"
    /\ pa_local.result = "True"

\* ---- process_animation: the target clip ----

\* The target clip has been chosen.
PastPick ==
    \/ pa_pc \in {"apply", "duplicates", "export", "export_first", "export_minimal"}
    \/ /\ pa_pc = "returned"
       /\ pa_local.result # "raised"
       /\ \E i \in 1..Len(pa_log) : pa_log[i] = "import_anim"

\* The clips active on armatures other than the character's.
OtherArmatureClips ==
    {pa_objects[i].action :
        i \in {j \in 1..Len(pa_objects) :
                  /\ pa_objects[j].type = "ARMATURE"
                  /\ pa_objects[j].name # pa_local.char_armature_name
                  /\ pa_objects[j].action # "None"}}

\* The clip active on the character's armature, if it has one.
CharacterClips ==
    {pa_objects[i].action :
        i \in {j \in 1..Len(pa_objects) :
                  /\ pa_objects[j].name = pa_local.char_armature_name
                  /\ pa_objects[j].action # "None"}}

C16_TwoNewClips ==
    ~(/\ pa_pc = "apply"
      /\ Cardinality(pa_local.new_actions) = 2
      /\ pa_local.new_action = <<"Take", 2>>)

\* C17: the base mesh's own default clip is never taken for the target: at
\* export time the clip of the base armature is never a clip that was there
\* before the animation file was imported.
C17_DefaultClipNeverTarget ==
    pa_pc \in {"export", "export_first", "export_minimal"} =>
        CharacterClips \cap pa_local.actions_before_anim = {}

\* What does hold: when the animation file brings a clip, the clip of the base
\* armature at export time is one of the clips it brought.
C17_NewClipWhenImported ==
    pa_pc \in {"export", "export_first", "export_minimal"}
        /\ pa_local.new_actions # {} =>
            CharacterClips \subseteq pa_local.new_actions

\* ---- process_animation: the removal of the duplicates ----

\* C18: after the removal loop and before the export the scene holds only the
\* objects that were there after the base import: every armature and mesh the
\* animation import brought is gone, for any number and order of objects.
C18_OnlyBaseObjectsRemain ==
    pa_pc = "export" =>
        /\ NamesOf(pa_objects) \subseteq pa_local.after_base
        /\ \A i \in 1..Len(pa_objects) :
              pa_objects[i].origin = "anim" =>
                  pa_objects[i].type \notin {"ARMATURE", "MESH"}

\* The same for the armatures and meshes alone.
C18_NoImportedArmatureOrMesh ==
    pa_pc = "export" =>
        \A i \in 1..Len(pa_objects) :
            pa_objects[i].origin = "anim" =>
                pa_objects[i].type \notin {"ARMATURE", "MESH"}

\* What does hold: the loop keeps the character's armature and meshes.
C18_CharacterKept ==
    pa_pc = "export" =>
        /\ pa_local.char_armature_name \in NamesOf(pa_objects)
        /\ pa_local.char_mesh_names \subseteq NamesOf(pa_objects)

\* ---- process_animation without a target clip ----

C19_NoTargetExports ==
    PastPick /\ pa_local.new_action = "None" =>
        /\ CharacterClips = {}
        /\ pa_frame = DefaultFrame
        /\ pa_pc = "returned" =>
              /\ pa_log[Len(pa_log)] = "export"
              /\ (pa_local.result = "True" <=>
                     pa_calls # <<>> /\ pa_calls[Len(pa_calls)].outcome = "ok")

\* ---- process_animation: the order of the host operations ----

FixedOrder ==
    <<"clear_scene", "import_base", "import_anim", "strip_root_motion",
      "assign_action", "frame_range", "remove_duplicates", "export">>

PositionOf(op) == CHOOSE k \in 1..Len(FixedOrder) : FixedOrder[k] = op

\* The host operations of an item come in the fixed order, the scene reset
\* first and the export last.
C20_FixedOrder ==
    /\ \A i, j \in 1..Len(pa_log) :
          i < j => PositionOf(pa_log[i]) < PositionOf(pa_log[j])
    /\ pa_log # <<>> => pa_log[1] = "clear_scene"
    /\ pa_calls # <<>> => pa_log[Len(pa_log)] = "export"
    /\ pa_pc \notin {"clear"} => pa_log # <<>>

\* ---------------------------------------------------------------------------
\* export_animation (src/Scripts/export_animation.py, lines 44-161): the
\* lookup of the armature, the bone table, the keyframe records and the
\* document that is written.
\* ---------------------------------------------------------------------------

\* The largest number of bones of an armature.
MaxBones == 2

\* The largest span of a short clip, in frames.
MaxFrames == 2

BonePool == << <<"mixamorig", ":", "Hips">>, <<"Spine">>, <<"Head">>, <<"Hand">> >>

\* Following the parents from bone i, for at most n steps.
RECURSIVE Up(_, _, _)
Up(parent, i, n) == IF n = 0 \/ i = 0 THEN i ELSE Up(parent, parent[i], n - 1)

\* armature.pose.bones: up to n bones in the order the host enumerates them,
\* each with the position of its parent in that order (0: no parent).  The
\* parent relation has no cycle; the order is whatever the host keeps.
PoseBones(n) ==
    UNION {{[i \in 1..k |-> [name |-> BonePool[i], parent |-> p[i]]] :
               p \in {q \in [1..k -> 0..k] : \A i \in 1..k : Up(q, i, k) = 0}} :
           k \in 0..n}

\* action.frame_range in half frames: clips that start on frame 0 or 1.5 and
\* last up to n frames, and clips of 301 and 302 frames.
ShortRanges(n) == {<<lo, lo + 2 * d>> : lo \in {0, 3}, d \in 0..n}

LongRanges == {<<2, 2 * (SampleThreshold + 1)>>, <<2, 2 * (SampleThreshold + 2)>>}

ClipName == <<"mixamo", ":", "Walk">>

\* animation_data and its action: no animation_data, animation_data without
\* action, animation_data with a clip
NoAction == [name |-> <<>>, frame_range |-> <<>>]

Animations(ranges) ==
    {[has_data |-> FALSE, action |-> NoAction], [has_data |-> TRUE, action |-> NoAction]}
    \cup {[has_data |-> TRUE, action |-> [name |-> ClipName, frame_range |-> r]] :
             r \in ranges}

Meshes ==
    {[name |-> "Cube", type |-> "MESH", animation |-> a, bones |-> <<>>] :
        a \in Animations({<<0, 2>>})}

Armatures(nb, nf) ==
    {[name |-> "Armature", type |-> "ARMATURE", animation |-> a, bones |-> b] :
        a \in Animations(ShortRanges(nf)), b \in PoseBones(nb)}
    \cup {[name |-> "Armature", type |-> "ARMATURE", animation |-> a, bones |-> b] :
        a \in Animations(LongRanges) \ Animations({}), b \in PoseBones(1)}

\* bpy.context.scene.objects: at most a mesh and, after it, an armature
ExportScenes(nb, nf) ==
    {<<>>}
    \cup {<<m>> : m \in Meshes}
    \cup {<<a>> : a \in Armatures(nb, nf)}
    \cup {<<m, a>> : m \in Meshes, a \in Armatures(nb, nf)}

\* bpy.data.objects.get(armature_name): the object of that name, 0 for None
objects_get(scene, name) ==
    IF \E i \in 1..Len(scene) : scene[i].name = name
    THEN CHOOSE i \in 1..Len(scene) : scene[i].name = name
    ELSE 0

\* lines 47-56
find_armature(scene, armature_name) ==
    IF armature_name # "None"
    THEN objects_get(scene, armature_name)
    ELSE get_armature(scene)

\* A test of the animation data that forgets the clip.
no_action_data_only(obj) == ~obj.animation.has_data

\* line 65: not armature.animation_data or not armature.animation_data.action
no_action(obj) == ~obj.animation.has_data \/ obj.animation.action = NoAction

\* name.replace(":", "_")
replace_colon(name) == [i \in 1..Len(name) |-> IF name[i] = ":" THEN "_" ELSE name[i]]

\* bone_name_to_index.get(name, -1)
dict_get(dict, name, default) ==
    IF name \in DOMAIN dict THEN dict[name] ELSE default

\* lines 80-96: the loop over enumerate(armature.pose.bones), from bone idx + 1
\* on (idx counts from 0 as in the code)
RECURSIVE bone_table(_, _, _, _)
bone_table(bones, idx, bones_info, bone_name_to_index) ==
    IF idx >= Len(bones)
    THEN [bones_info |-> bones_info, bone_name_to_index |-> bone_name_to_index]
    ELSE LET bone       == bones[idx + 1]
             parent_idx == IF bone.parent # 0
                           THEN dict_get(bone_name_to_index,
                                         bones[bone.parent].name, -1)
                           ELSE -1
         IN  bone_table(bones, idx + 1,
                        Append(bones_info, [name |-> replace_colon(bone.name),
                                            index |-> idx,
                                            parentIndex |-> parent_idx]),
                        (bone.name :> idx) @@ bone_name_to_index)

\* time = frame / fps, without the start of the clip
frame_time_absolute(frame, frame_start, fps) == <<frame, fps>>

\* time = (frame - frame_start) / fps: the quotient, kept as numerator and
\* denominator
frame_time(frame, frame_start, fps) == <<frame - frame_start, fps>>

\* get_bone_transform: the matrix relative to the parent, or for a bone without
\* parent the armature-space matrix, at the frame the scene is set to
get_bone_transform(bones, i, frame) ==
    IF bones[i].parent # 0
    THEN [bone |-> i, frame |-> frame, relative_to |-> bones[i].parent]
    ELSE [bone |-> i, frame |-> frame, relative_to |-> 0]

\* matrix_to_list: for col in range(4): for row in range(4):
\* result.append(matrix[row][col]); an element is written <<matrix, row, col>>
matrix_to_list(matrix) ==
    [k \in 1..16 |-> <<matrix, (k - 1) % 4, (k - 1) \div 4>>]

\* lines 144-150: the path of the output
output_path(env, action) ==
    IF env.output_path # "None" THEN <<env.output_path>>
    ELSE IF env.blend_saved THEN <<"file", "_animation.json">>
    ELSE <<"/tmp/">> \o action.name \o <<"_animation.json">>

InitExport ==
    /\ CfIdle /\ RmIdle /\ KaIdle /\ ScIdle /\ BIdle /\ EaIdle /\ PaIdle
    /\ \E name \in {"None", "Armature", "Cube"},
          out \in {"None", "out.json"},
          saved \in BOOLEAN,
          fps \in {24, 30},
          frame \in {500},
          scene \in ExportScenes(MaxBones, MaxFrames) :
          /\ saved => out = "None"
          /\ xa_env = [armature_name |-> name, output_path |-> out,
                       blend_saved |-> saved, fps |-> fps, scene |-> scene,
                       frame_current |-> frame]
          /\ xa_frame = frame
    /\ xa_pc = "find_armature"
    /\ xa_armature = 0
    /\ xa_local = NoExportLocals
    /\ xa_files = {}
    /\ xa_result = "none"

\* export_animation returns `result`
ExportReturns(result) ==
    /\ xa_result' = result
    /\ xa_pc' = "returned"

\* lines 47-60: the armature by name or the first of the scene; None is an
\* error and the function returns None
xa_find_armature ==
    /\ xa_pc = "find_armature"
    /\ xa_armature' = find_armature(xa_env.scene, xa_env.armature_name)
    /\ IF find_armature(xa_env.scene, xa_env.armature_name) = 0
       THEN ExportReturns("None")
       ELSE xa_pc' = "check_action" /\ UNCHANGED xa_result
    /\ UNCHANGED <<xa_env, xa_frame, xa_local, xa_files>>
    /\ UNCHANGED XaOthers

\* lines 65-67: no assigned clip is an error and the function returns None
xa_check_action ==
    /\ xa_pc = "check_action"
    /\ IF no_action(xa_env.scene[xa_armature])
       THEN ExportReturns("None")
       ELSE xa_pc' = "frame_range" /\ UNCHANGED xa_result
    /\ UNCHANGED <<xa_env, xa_armature, xa_frame, xa_local, xa_files>>
    /\ UNCHANGED XaOthers

\* lines 69-77: action, frame_start, frame_end, fps
xa_frame_range ==
    /\ xa_pc = "frame_range"
    /\ LET action == xa_env.scene[xa_armature].animation.action
       IN  xa_local' = [xa_local EXCEPT
                          !.frame_start = int(action.frame_range[1]),
                          !.frame_end = int(action.frame_range[2]),
                          !.fps = xa_env.fps]
    /\ xa_pc' = "bones"
    /\ UNCHANGED <<xa_env, xa_armature, xa_frame, xa_files, xa_result>>
    /\ UNCHANGED XaOthers

\* lines 79-98: the bone table; an object that is no armature has no pose and
\* the read of armature.pose.bones raises
xa_bone_table ==
    /\ xa_pc = "bones"
    /\ IF xa_env.scene[xa_armature].type = "ARMATURE"
       THEN LET table == bone_table(xa_env.scene[xa_armature].bones, 0, <<>>, <<>>)
            IN  /\ xa_local' = [xa_local EXCEPT
                                  !.bones_info = table.bones_info,
                                  !.bone_name_to_index = table.bone_name_to_index]
                /\ xa_pc' = "sample"
       ELSE /\ xa_pc' = "raised"
            /\ UNCHANGED xa_local
    /\ UNCHANGED <<xa_env, xa_armature, xa_frame, xa_files, xa_result>>
    /\ UNCHANGED XaOthers

\* lines 103-114: the frames to sample
xa_sample_frames ==
    /\ xa_pc = "sample"
    /\ LET total_frames == xa_local.frame_end - xa_local.frame_start + 1
       IN  xa_local' = [xa_local EXCEPT
                          !.sampled_frames =
                              include_last(range(xa_local.frame_start,
                                                 xa_local.frame_end + 1,
                                                 sample_step(total_frames)),
                                           xa_local.frame_end),
                          !.k = 1]
    /\ xa_pc' = "for_frame"
    /\ UNCHANGED <<xa_env, xa_armature, xa_frame, xa_files, xa_result>>
    /\ UNCHANGED XaOthers

\* lines 116-129: the scene is set to the frame and a record is appended; the
\* inversion of a parent's matrix raises when the matrix has no inverse
xa_for_frame ==
    /\ xa_pc = "for_frame"
    /\ xa_local.k <= Len(xa_local.sampled_frames)
    /\ LET frame == xa_local.sampled_frames[xa_local.k]
           bones == xa_env.scene[xa_armature].bones
       IN  /\ xa_frame' = frame
           /\ \/ /\ xa_local' = [xa_local EXCEPT
                      !.keyframes = Append(@,
                          [time |-> frame_time(frame, xa_local.frame_start,
                                               xa_local.fps),
                           boneTransforms |->
                               [b \in 1..Len(bones) |->
                                   matrix_to_list(get_bone_transform(bones, b, frame))]]),
                      !.visited = Append(@, frame),
                      !.k = @ + 1]
                 /\ UNCHANGED xa_pc
              \/ /\ \E b \in 1..Len(bones) : bones[b].parent # 0
                 /\ xa_local' = [xa_local EXCEPT !.visited = Append(@, frame)]
                 /\ xa_pc' = "raised"
    /\ UNCHANGED <<xa_env, xa_armature, xa_files, xa_result>>
    /\ UNCHANGED XaOthers

\* the loop over the sampled frames is over
xa_loop_end ==
    /\ xa_pc = "for_frame"
    /\ xa_local.k > Len(xa_local.sampled_frames)
    /\ xa_pc' = "write"
    /\ UNCHANGED <<xa_env, xa_armature, xa_frame, xa_local, xa_files, xa_result>>
    /\ UNCHANGED XaOthers

\* lines 131-161: the document is built and written; open() may raise
xa_write ==
    /\ xa_pc = "write"
    /\ LET action == xa_env.scene[xa_armature].animation.action
           path   == output_path(xa_env, action)
           animation_data ==
               [name |-> replace_colon(action.name),
                duration |-> <<xa_local.frame_end - xa_local.frame_start, xa_local.fps>>,
                fps |-> xa_local.fps,
                boneCount |-> Len(xa_local.bones_info),
                keyframeCount |-> Len(xa_local.keyframes),
                bones |-> xa_local.bones_info,
                keyframes |-> xa_local.keyframes]
       IN  \/ /\ xa_files' = xa_files \cup {[path |-> path, document |-> animation_data]}
              /\ ExportReturns(path)
           \/ /\ xa_pc' = "raised"
              /\ UNCHANGED <<xa_files, xa_result>>
    /\ UNCHANGED <<xa_env, xa_armature, xa_frame, xa_local>>
    /\ UNCHANGED XaOthers

NextExport ==
    \/ xa_find_armature
    \/ xa_check_action
    \/ xa_frame_range
    \/ xa_bone_table
    \/ xa_sample_frames
    \/ xa_for_frame
    \/ xa_loop_end
    \/ xa_write

SpecExport == InitExport /\ [][NextExport]_vars

TypeExport ==
    xa_pc \in {"find_armature", "check_action", "frame_range", "bones", "sample",
               "for_frame", "write", "returned", "raised"}

\* The object the lookup of lines 47-56 yields, 0 for None
Found == find_armature(xa_env.scene, xa_env.armature_name)

\* No armature is found, or the object found has no assigned clip
NothingToExport ==
    \/ Found = 0
    \/ ~xa_env.scene[Found].animation.has_data
    \/ xa_env.scene[Found].animation.action = NoAction

C22_NoneOnlyThen ==
    (xa_pc = "returned" /\ xa_result = "None") => NothingToExport

\* No scene at all, and no armature found.
C22_NoArmature ==
    /\ xa_pc = "returned"
    /\ xa_result = "None"
    /\ xa_armature = 0

\* The loop of lines 80-96 is over for the bones of an armature
TableBuilt ==
    /\ xa_pc \in {"sample", "for_frame", "write", "returned", "raised"}
    /\ xa_armature # 0
    /\ xa_env.scene[xa_armature].type = "ARMATURE"
    /\ ~NothingToExport

\* The bones the table was built from, in the order of the enumeration
TableBones == xa_env.scene[xa_armature].bones

\* The entry of bone i of the enumeration (i counts from 1) is as it should be
EntryRight(i) ==
    LET entry == xa_local.bones_info[i]
        bone  == TableBones[i]
    IN  /\ entry.index = i - 1
        /\ entry.parentIndex = -1 <=> bone.parent = 0
        /\ bone.parent # 0 =>
              /\ entry.parentIndex = xa_local.bones_info[bone.parent].index
              /\ entry.parentIndex < entry.index

\* C23: in the bone table, bone i of the enumeration has index i (from 0,
\* consecutive); its parentIndex is -1 if and only if the bone has no parent,
\* and otherwise it is the index of the parent in the table and smaller than
\* the bone's own index.
C23_BoneTableRight ==
    TableBuilt =>
        /\ Len(xa_local.bones_info) = Len(TableBones)
        /\ \A i \in 1..Len(TableBones) : EntryRight(i)

\* The enumeration yields every parent before its children
ParentFirst == \A i \in 1..Len(TableBones) : TableBones[i].parent < i

\* C23 for an enumeration that yields parents first: the table is right.
C23_RightWhenParentFirst ==
    (TableBuilt /\ ParentFirst) => C23_BoneTableRight

\* C23, the part about the indices alone: they are consecutive from 0, the
\* names have their colons replaced, and a parentIndex is -1 or the index of
\* the bone's parent.
C23_IndicesConsecutive ==
    TableBuilt =>
        /\ Len(xa_local.bones_info) = Len(TableBones)
        /\ \A i \in 1..Len(TableBones) :
              /\ xa_local.bones_info[i].index = i - 1
              /\ xa_local.bones_info[i].name = replace_colon(TableBones[i].name)
              /\ xa_local.bones_info[i].parentIndex \in
                    {-1} \cup (IF TableBones[i].parent = 0 THEN {}
                               ELSE {TableBones[i].parent - 1})

\* A table with a child and its parent in it, the parent first.
C23_ParentFirstReached ==
    ~(/\ TableBuilt
      /\ ParentFirst
      /\ \E i \in 1..Len(TableBones) : TableBones[i].parent # 0)

\* Record k of a document is the one of frame `frame` for a clip that starts
\* at frame `start`: its time, and for every bone of the table, in the table's
\* order, the 16 numbers of the bone's matrix at that frame, column by column
RecordRight(doc, k, frame, start) ==
    LET record == doc.keyframes[k]
    IN  /\ record.time = <<frame - start, doc.fps>>
        /\ Len(record.boneTransforms) = doc.boneCount
        /\ \A b \in 1..Len(record.boneTransforms) :
              /\ Len(record.boneTransforms[b]) = 16
              /\ doc.bones[b].index = b - 1
              /\ \A row \in 0..3, col \in 0..3 :
                    LET element == record.boneTransforms[b][4 * col + row + 1]
                    IN  /\ element[1].bone = b
                        /\ element[1].frame = frame
                        /\ element[1].relative_to = TableBones[b].parent
                        /\ element[2] = row
                        /\ element[3] = col

\* C24: the document written by export_animation is consistent: boneCount is
\* the length of the bone table, keyframeCount the number of records, one per
\* sampled frame in increasing frame order; every record holds boneCount
\* matrices of 16 numbers in the order of the bone table; the time of a
\* record is (frame - start)/fps, 0 for the first record and the duration
\* (end - start)/fps for the last.
C24_DocumentConsistent ==
    \A file \in xa_files :
        LET doc    == file.document
            frames == xa_local.visited
            start  == xa_local.frame_start
        IN  /\ doc.boneCount = Len(doc.bones)
            /\ doc.boneCount = Len(TableBones)
            /\ doc.keyframeCount = Len(doc.keyframes)
            /\ doc.keyframeCount = Len(xa_local.sampled_frames)
            /\ frames = xa_local.sampled_frames
            /\ \A k \in 1..(Len(frames) - 1) : frames[k] < frames[k + 1]
            /\ \A k \in 1..Len(frames) : RecordRight(doc, k, frames[k], start)
            /\ doc.keyframeCount >= 1
            /\ doc.keyframes[1].time[1] = 0
            /\ doc.duration = <<xa_local.frame_end - start, doc.fps>>
            /\ doc.keyframes[doc.keyframeCount].time = doc.duration

\* A document of a clip that does not start at frame 0, with several records
\* and a bone that has a parent.
C24_Witness ==
    /\ xa_pc = "returned"
    /\ \E file \in xa_files :
          /\ file.path = xa_result
          /\ file.document.keyframeCount >= 2
          /\ file.document.boneCount = MaxBones
          /\ \E b \in 1..Len(TableBones) : TableBones[b].parent # 0
    /\ xa_local.frame_start > 0

\* A document of a long clip: every second frame was sampled and the last
\* frame was added.
C24_LastFrameAdded ==
    ~(/\ xa_pc = "returned"
      /\ xa_files # {}
      /\ LET frames == xa_local.visited
             n      == Len(frames)
         IN  /\ n >= 3
             /\ frames[2] - frames[1] = 2
             /\ frames[n] - frames[n - 1] = 1)

=============================================================================
